---- MODULE Spec2Model ----
(***************************************************************************)
(* A model of the killteamjson tool scripts: the field classifiers, the    *)
(* recursive translation walkers, the batch collector / path write-back,   *)
(* and the per-document pipelines with their driver loops.                 *)
(*                                                                         *)
(* Python strings are TLA+ strings (Len, \o and SubSeq act on them).       *)
(* A JSON value is a record [t, s, keys, c]:                               *)
(*   t = "str"  : s is the string                                          *)
(*   t = "num"  : a number (s = "")                                        *)
(*   t = "null" : null                                                     *)
(*   t = "arr"  : c is the sequence of elements                            *)
(*   t = "obj"  : keys is the sequence of keys in insertion order and      *)
(*                c the sequence of their values                           *)
(*   t = "raise": not a JSON value: the evaluation raised the exception    *)
(*                named by s                                               *)
(***************************************************************************)
EXTENDS Integers, Sequences, FiniteSets, TLC

VARIABLES
    \* ---- classifier runs
    cScript,    \* which script's classifier is called
    cEnFile,    \* en_file of translate_precise.translate_file; "" for the other scripts
    cFile,      \* file_name (translation_config.should_translate_field)
    cPath,      \* field_path
    cField,     \* field_name
    cValue,     \* the value handed to the deny-list classifiers
    cIncl,      \* the configured include set (TRANSLATABLE...)
    cExcl,      \* the configured exclude set (NON_TRANSLATABLE...)
    cOut,       \* what the classifier returned
    cPhase,     \* "call" before the classifier ran, "ret" after
    \* ---- walker runs
    wScript,    \* which script's walker is called
    wFile,      \* file_name (translate_precise only)
    wDoc,       \* the parsed document handed to the walker
    wMode,      \* how the leaf transform behaves in this run
    wOut,       \* what the walker returned (or the exception it raised)
    wPhase,     \* "call" before the walker ran, "ret" after
    \* ---- batch runs (translate_batch.translate_file)
    bDoc,       \* the parsed document
    bMode,      \* how the provider answers in this run
    bUnits,     \* translatable_strings: the collected units
    bTexts,     \* translated_texts
    bData,      \* data, written back in place
    bI,         \* the unit the write-back loop is at (from 1)
    bPhase,     \* "loaded", "skipped", "applying", "applied", "raised"
    \* ---- driver runs
    pScript,    \* which script's main is running
    pMode,      \* how the leaf transform behaves in this run
    pFiles,     \* files: what each source path holds
    pIdx,       \* the file the loop is at (from 1)
    pPc,        \* "loop", "walk", "write", "exit", "aborted"
    pData,      \* the document in memory
    pDisk,      \* what each destination path holds
    pOut,       \* how the processing of each file ended
    pSuccess,   \* success_count
    pCause,     \* the exception that ended the process, if one did
    pTally,     \* the tally line was printed
    pSteps,     \* what was done with the file the loop is at, in order
    \* ---- runs of the tools that rewrite a file in place
    iScript,    \* "check_unicode" or "clean_team_fields"
    iBackup,    \* fix_file's backup argument
    iLinesep,   \* os.linesep of the platform
    iFile,      \* what the file holds
    iOrig,      \* what the file held before the run
    iBackupFile,\* what the file's .backup holds
    iContent,   \* the text read
    iData,      \* the document parsed
    iPc,        \* "start", "parsed", "backed", "returned", "raised"
    iLog,       \* the files written, in order
    iOut,       \* the value returned or the exception raised
    \* ---- provider traffic of a walk
    rScript,    \* the script whose walk is running
    rTexts,     \* the in-scope, non-blank strings of the document, in walk order
    rI,         \* the string the walk is at (from 1)
    rTrace,     \* the provider requests and the sleeps of the run, in order
    rLast,      \* the last call of the provider function: its input and outcome
    rPc,        \* "walk", "done"
    \* ---- character normalisation
    nIn,        \* the value given to the first fix_string_value
    nFirst,     \* what the first application returned
    nOut,       \* what the last application returned
    nCount,     \* replacements_count[0] of the last application
    nCount1,    \* replacements_count[0] of the first application
    nPass,      \* how many times fix_string_value was applied
    \* ---- runs of merge_actions and split_teams
    tScript,    \* "merge_actions" or "split_teams"
    tSources,   \* what each source file holds
    tDisk,      \* the output directory: whether it exists, and its files
    tDisk0,     \* the output directory before the run
    tTeams,     \* the parsed teams
    tI,         \* the team the loop is at (from 1)
    tSaved,     \* saved_count
    tOut,       \* the value returned or the exception raised
    tPc         \* "start", "loop", "returned", "raised"

classifyVars == <<cScript, cEnFile, cFile, cPath, cField, cValue, cIncl, cExcl, cOut, cPhase>>
walkVars == <<wScript, wFile, wDoc, wMode, wOut, wPhase>>

batchVars == <<bDoc, bMode, bUnits, bTexts, bData, bI, bPhase>>
pipeVars ==
    <<pScript, pMode, pFiles, pIdx, pPc, pData, pDisk, pOut, pSuccess, pCause, pTally, pSteps>>

inPlaceVars == <<iScript, iBackup, iLinesep, iFile, iOrig, iBackupFile, iContent, iData, iPc, iLog, iOut>>

requestVars == <<rScript, rTexts, rI, rTrace, rLast, rPc>>

normalizeVars == <<nIn, nFirst, nOut, nCount, nCount1, nPass>>

toolVars == <<tScript, tSources, tDisk, tDisk0, tTeams, tI, tSaved, tOut, tPc>>

vars ==
    <<classifyVars, walkVars, batchVars, pipeVars, inPlaceVars, requestVars, normalizeVars,
      toolVars>>

\* the variables each group of runs leaves alone
NotClassifyVars == <<walkVars, batchVars, pipeVars, inPlaceVars, requestVars, normalizeVars,
      toolVars>>
NotWalkVars == <<classifyVars, batchVars, pipeVars, inPlaceVars, requestVars, normalizeVars,
      toolVars>>
NotBatchVars == <<classifyVars, walkVars, pipeVars, inPlaceVars, requestVars, normalizeVars,
      toolVars>>
NotPipeVars == <<classifyVars, walkVars, batchVars, inPlaceVars, requestVars, normalizeVars,
      toolVars>>
NotInPlaceVars == <<classifyVars, walkVars, batchVars, pipeVars, requestVars, normalizeVars,
      toolVars>>
NotNormalizeVars ==
    <<classifyVars, walkVars, batchVars, pipeVars, inPlaceVars, requestVars, toolVars>>
NotToolVars ==
    <<classifyVars, walkVars, batchVars, pipeVars, inPlaceVars, requestVars, normalizeVars>>
NotRequestVars == <<classifyVars, walkVars, batchVars, pipeVars, inPlaceVars, normalizeVars,
      toolVars>>

(***************************************************************************)
(* Bounds of the model                                                     *)
(***************************************************************************)
MaxPathLen == 3
MaxArrLen == 2

(***************************************************************************)
(* JSON values                                                             *)
(***************************************************************************)
JStr(s) == [t |-> "str", s |-> s, keys |-> <<>>, c |-> <<>>]
JNum == [t |-> "num", s |-> "", keys |-> <<>>, c |-> <<>>]
JNull == [t |-> "null", s |-> "", keys |-> <<>>, c |-> <<>>]
JArr(items) == [t |-> "arr", s |-> "", keys |-> <<>>, c |-> items]
JObj(ks, vs) == [t |-> "obj", s |-> "", keys |-> ks, c |-> vs]
Raise(e) == [t |-> "raise", s |-> e, keys |-> <<>>, c |-> <<>>]

RECURSIVE SeqsUpTo(_, _)
\* the sequences over S of length at most n
SeqsUpTo(S, n) ==
    IF n = 0 THEN {<<>>}
    ELSE LET shorter == SeqsUpTo(S, n - 1) IN
         shorter \cup {Append(p, x) : p \in shorter, x \in S}

IsStr(v) == v.t = "str"
IsRaise(v) == v.t = "raise"

(***************************************************************************)
(* Python string methods                                                   *)
(***************************************************************************)
CharAt(s, i) == SubSeq(s, i, i)

Whitespace == {" ", "\t", "\n", "\r"}

\* bool(s.strip()): some character of s is not whitespace
StripTruthy(s) == \E i \in 1..Len(s) : CharAt(s, i) \notin Whitespace

UpperLetters == "ABCDEFGHIJKLMNOPQRSTUVWXYZ"
LowerLetters == "abcdefghijklmnopqrstuvwxyz"

LowerChar(ch) ==
    IF \E i \in 1..Len(UpperLetters) : CharAt(UpperLetters, i) = ch
    THEN CharAt(LowerLetters, CHOOSE i \in 1..Len(UpperLetters) : CharAt(UpperLetters, i) = ch)
    ELSE ch

RECURSIVE Lower(_)
\* s.lower()
Lower(s) == IF s = "" THEN "" ELSE LowerChar(CharAt(s, 1)) \o Lower(Tail(s))

\* s.startswith(p), s.endswith(p)
StartsWith(s, p) == Len(s) >= Len(p) /\ SubSeq(s, 1, Len(p)) = p
EndsWith(s, p) == Len(s) >= Len(p) /\ SubSeq(s, Len(s) - Len(p) + 1, Len(s)) = p

\* field_name.lower().endswith(('id', '_id', 'code', '_code'))
IdSuffixes == {"id", "_id", "code", "_code"}
LooksLikeId(field_name) == \E suf \in IdSuffixes : EndsWith(Lower(field_name), suf)

(***************************************************************************)
(* translation_config.py: the rule tree and the allow-list classifier.     *)
(* A rule node is [isDict, flag, kids]: a Python bool (isDict = FALSE,     *)
(* flag its value) or a dict (isDict = TRUE, kids the mapping).            *)
(***************************************************************************)
PyBool(b) == [isDict |-> FALSE, flag |-> b, kids |-> <<>>]
PyDict(d) == [isDict |-> TRUE, flag |-> FALSE, kids |-> d]
PyTrue == PyBool(TRUE)
PyFalse == PyBool(FALSE)

\* bool(x) of a rule node: a dict is truthy when it is not empty
Truthy(x) == IF x.isDict THEN DOMAIN x.kids # {} ELSE x.flag

ActionRules ==
    PyDict([name |-> PyTrue, description |-> PyTrue, effects |-> PyTrue, conditions |-> PyTrue])

TRANSLATION_RULES ==
    ("actions.json" :> PyDict([actions |-> ActionRules]))
    @@ ("ops_2025.json" :> PyDict([
            ops |-> PyDict([title |-> PyTrue, reveal |-> PyTrue,
                            additionalRules |-> PyTrue, victoryPoints |-> PyTrue]),
            actions |-> ActionRules]))
    @@ ("teams" :> PyDict([
            killteamName |-> PyTrue,
            description |-> PyTrue,
            composition |-> PyTrue,
            opTypes |-> PyDict([
                opTypeName |-> PyTrue,
                weapons |-> PyDict([
                    wepName |-> PyTrue,
                    profiles |-> PyDict([profileName |-> PyTrue])]),
                abilities |-> PyDict([abilityName |-> PyTrue, description |-> PyTrue]),
                options |-> PyDict([optionName |-> PyTrue, description |-> PyTrue])])]))
    @@ ("universal_equipment.json" :> PyDict([
            equipments |-> PyDict([eqName |-> PyTrue, description |-> PyTrue, effects |-> PyTrue]),
            actions |-> ActionRules]))
    @@ ("weapon_rules.json" :> PyDict([
            weapon_rules |-> PyDict([name |-> PyTrue, description |-> PyTrue])]))

RECURSIVE Contains(_, _)
\* sub in s
Contains(s, sub) ==
    IF Len(s) < Len(sub) THEN FALSE
    ELSE StartsWith(s, sub) \/ Contains(Tail(s), sub)

\* lines 95-100: the rule set's key for a file name
RulesKey(file_name) ==
    IF EndsWith(file_name, ".json") /\ Contains(Lower(file_name), "teams")
    THEN "teams"
    ELSE file_name

\* the index of the last '/' of a path, 0 when it has none
LastSlash(path) ==
    IF \E i \in 1..Len(path) : CharAt(path, i) = "/"
    THEN CHOOSE i \in 1..Len(path) :
            /\ CharAt(path, i) = "/"
            /\ \A j \in (i + 1)..Len(path) : CharAt(path, j) # "/"
    ELSE 0

\* en_file.name
PathName(path) == SubSeq(path, LastSlash(path) + 1, Len(path))

\* translate_precise.translate_file, lines 121-124: the file name the rules
\* are looked up with
file_name_of(en_file) ==
    IF Contains(en_file, "teams") THEN "teams/" \o PathName(en_file) ELSE PathName(en_file)

RECURSIVE NavigatePath(_, _)

\* a navigation that skips a segment it does not find (a wildcard match)
NavigateSkipsMissing(current_rules, field_path) ==
    IF field_path = <<>> THEN [found |-> TRUE, node |-> current_rules]
    ELSE IF current_rules.isDict /\ Head(field_path) \in DOMAIN current_rules.kids
         THEN NavigatePath(current_rules.kids[Head(field_path)], Tail(field_path))
         ELSE NavigatePath(current_rules, Tail(field_path))

\* lines 108-114: the node reached by consuming field_path, if every segment
\* is a key of the subtree reached so far
NavigatePath(current_rules, field_path) ==
    IF field_path = <<>> THEN [found |-> TRUE, node |-> current_rules]
    ELSE IF current_rules.isDict /\ Head(field_path) \in DOMAIN current_rules.kids
         THEN NavigatePath(current_rules.kids[Head(field_path)], Tail(field_path))
         ELSE [found |-> FALSE, node |-> PyFalse]

\* lines 102-120: what should_translate_field returns (a bool, or the dict
\* stored under field_name: current_rules.get(field_name, False))
should_translate_field(file_name, field_path, field_name) ==
    LET rules_key == RulesKey(file_name) IN
    IF rules_key \notin DOMAIN TRANSLATION_RULES THEN PyFalse
    ELSE LET nav == NavigatePath(TRANSLATION_RULES[rules_key], field_path) IN
         IF ~nav.found THEN PyFalse
         ELSE IF nav.node.isDict
              THEN IF field_name \in DOMAIN nav.node.kids
                   THEN nav.node.kids[field_name]
                   ELSE PyFalse
              ELSE PyFalse

(***************************************************************************)
(* The deny-list classifiers                                               *)
(***************************************************************************)
\* translate_batch.py
NON_TRANSLATABLE_FIELDS_batch ==
    {"id", "type", "seq", "AP", "APL", "GA", "DF", "SV", "W", "M",
     "MV", "APL_base", "GA_base", "DF_base", "SV_base", "W_base",
     "M_base", "MV_base", "D", "A", "BS", "WS", "version", "file"}
TRANSLATABLE_FIELDS_batch ==
    {"name", "description", "killteamName", "opTypeName", "wepName",
     "abilityName", "ployName", "eqName", "optionName", "title",
     "profileName", "composition", "reveal", "additionalRules",
     "victoryPoints", "effects", "conditions", "packs", "archetypes",
     "ability", "keyword", "team"}

\* translate_comprehensive.py
NON_TRANSLATABLE_FIELDS_comprehensive ==
    {"id", "type", "seq", "AP", "APL", "GA", "DF", "SV", "W", "M",
     "MV", "APL_base", "GA_base", "DF_base", "SV_base", "W_base",
     "M_base", "MV_base", "D", "A", "BS", "WS"}
TRANSLATABLE_FIELDS_comprehensive ==
    {"name", "description", "killteamName", "opTypeName", "wepName",
     "abilityName", "ployName", "eqName", "optionName", "title",
     "profileName", "composition", "reveal", "additionalRules",
     "victoryPoints", "effects", "conditions", "packs", "archetypes",
     "ability", "keyword"}

\* translate_deepl.py, translate_fast.py, translate_teams_only.py
NON_TRANSLATABLE ==
    {"id", "type", "seq", "AP", "APL", "GA", "DF", "SV", "W", "M",
     "MV", "version", "file", "D", "A", "BS", "WS"}
TRANSLATABLE ==
    {"name", "description", "killteamName", "opTypeName", "wepName",
     "abilityName", "ployName", "eqName", "optionName", "title",
     "profileName", "composition", "reveal", "additionalRules",
     "victoryPoints", "ability", "keyword", "team"}

DenyScripts == {"batch", "comprehensive", "deepl", "teams_only", "fast"}

ConfiguredExclude(script) ==
    CASE script = "batch" -> NON_TRANSLATABLE_FIELDS_batch
      [] script = "comprehensive" -> NON_TRANSLATABLE_FIELDS_comprehensive
      [] OTHER -> NON_TRANSLATABLE

ConfiguredInclude(script) ==
    CASE script = "batch" -> TRANSLATABLE_FIELDS_batch
      [] script = "comprehensive" -> TRANSLATABLE_FIELDS_comprehensive
      [] OTHER -> TRANSLATABLE

\* should_translate_field(field_name, value) of translate_batch,
\* translate_comprehensive, translate_deepl and translate_teams_only (the
\* four bodies are the same), over the module's exclude and include sets
deny_should_translate_field(field_name, value, incl, excl) ==
    IF field_name \in excl THEN FALSE
    ELSE IF field_name \in incl THEN TRUE
    ELSE IF IsStr(value) /\ StripTruthy(value.s) /\ ~StartsWith(field_name, "_")
         THEN ~LooksLikeId(field_name)
         ELSE FALSE

\* translate_fast.translate_value_recursive, lines 55-60: whether the string
\* branch hands the value to translate_func
fast_inline_rule(field_name, value, incl, excl) ==
    /\ field_name \in incl \/ (field_name \notin excl /\ StripTruthy(value.s))
    /\ ~LooksLikeId(field_name)
    /\ StripTruthy(value.s)

\* the scalar-string classification of each deny-list script (for a string value)
DenyClassify(script, field_name, value, incl, excl) ==
    IF script = "fast"
    THEN fast_inline_rule(field_name, value, incl, excl)
    ELSE deny_should_translate_field(field_name, value, incl, excl)

(***************************************************************************)
(* The leaf transforms.  The provider is outside the repository: in a run  *)
(* it either answers (mode "ok": Translate), or fails in a way the         *)
(* transform recovers from by returning its input (mode "same": also the   *)
(* identity stub), or the transform raises (mode "raise": the ImportError  *)
(* translate_google_translate re-raises).                                  *)
(***************************************************************************)
Translate(text) == "es:" \o text

\* the translate_func a walker is handed (translate_comprehensive, translate_fast)
translate_func(mode, text) ==
    CASE mode = "ok" -> JStr(Translate(text))
      [] mode = "same" -> JStr(text)
      [] OTHER -> Raise("ImportError")

\* translate_precise.translate_text, translate_teams_only.translate_text and
\* translate_fast.translate_text on a string: never raise an Exception
translate_text(mode, text) ==
    IF text = "" \/ ~StripTruthy(text) THEN JStr(text)
    ELSE IF mode = "ok" THEN JStr(Translate(text)) ELSE JStr(text)

\* translate_text(item, ...) on any JSON value: the blank test is before the
\* try, so a number has no strip; None and an empty list or dict come back
translate_text_any(mode, item) ==
    CASE IsStr(item) -> translate_text(mode, item.s)
      [] item.t = "null" -> item
      [] item.t \in {"arr", "obj"} /\ item.c = <<>> -> item
      [] OTHER -> Raise("AttributeError")

\* translate_deepl.translate_deepl on a string
translate_deepl(mode, text) ==
    IF text = "" \/ ~StripTruthy(text) THEN JStr(text)
    ELSE IF mode = "ok" THEN JStr(Translate(text)) ELSE JStr(text)

\* archetype_map["es"]
archetype_map ==
    ("Security" :> "Seguridad") @@ ("Seek & Destroy" :> "Buscar y Destruir")
    @@ ("Recon" :> "Reconocimiento") @@ ("Infiltration" :> "Infiltración")

StringArrayNames == {"effects", "conditions", "packs"}

\* a list built element by element: the first element that raised, if any,
\* ends the construction with its exception
ListOrRaise(items) ==
    IF \E i \in 1..Len(items) : IsRaise(items[i])
    THEN items[CHOOSE i \in 1..Len(items) :
                 IsRaise(items[i]) /\ \A j \in 1..(i - 1) : ~IsRaise(items[j])]
    ELSE JArr(items)

\* a dict comprehension {k: f(v)}: same keys, same order
DictOrRaise(ks, items) ==
    IF \E i \in 1..Len(items) : IsRaise(items[i])
    THEN items[CHOOSE i \in 1..Len(items) :
                 IsRaise(items[i]) /\ \A j \in 1..(i - 1) : ~IsRaise(items[j])]
    ELSE JObj(ks, items)

(***************************************************************************)
(* translate_precise.translate_value                                       *)
(***************************************************************************)
PathPlus(field_path, field_name) ==
    IF field_name # "" THEN Append(field_path, field_name) ELSE field_path

\* lines 94-107: the in-scope array of strings, element by element
precise_string_array(value, mode) ==
    ListOrRaise([i \in 1..Len(value.c) |->
        IF ~IsStr(value.c[i]) THEN Raise("AttributeError")
        ELSE IF StripTruthy(value.c[i].s) THEN translate_text(mode, value.c[i].s)
        ELSE value.c[i]])

RECURSIVE precise_translate_value(_, _, _, _, _)
precise_translate_value(value, field_name, field_path, file_name, mode) ==
    CASE value.t = "str" ->
            IF Truthy(should_translate_field(file_name, field_path, field_name))
               /\ StripTruthy(value.s)
            THEN translate_text(mode, value.s)
            ELSE value
      [] value.t = "obj" ->
            DictOrRaise(value.keys, [i \in 1..Len(value.c) |->
                precise_translate_value(value.c[i], value.keys[i],
                    PathPlus(field_path, field_name), file_name, mode)])
      [] value.t = "arr" ->
            IF value.c = <<>> THEN value
            ELSE IF IsStr(value.c[1])
            THEN IF Truthy(should_translate_field(file_name, field_path, field_name))
                 THEN precise_string_array(value, mode)
                 ELSE value
            ELSE ListOrRaise([i \in 1..Len(value.c) |->
                    precise_translate_value(value.c[i], "",
                        PathPlus(field_path, field_name), file_name, mode)])
      [] OTHER -> value

(***************************************************************************)
(* translate_comprehensive.translate_value                                 *)
(***************************************************************************)
comprehensive_should_translate_field(field_name, value) ==
    deny_should_translate_field(field_name, value,
        TRANSLATABLE_FIELDS_comprehensive, NON_TRANSLATABLE_FIELDS_comprehensive)

\* lines 119-126: the string branch: a raising translate_func is caught
comprehensive_string(value, field_name, mode) ==
    IF comprehensive_should_translate_field(field_name, value) /\ StripTruthy(value.s)
    THEN IF IsRaise(translate_func(mode, value.s)) THEN value
         ELSE translate_func(mode, value.s)
    ELSE value

\* line 131: the key under which a value is stored
comprehensive_key(k, mode) ==
    IF k \in TRANSLATABLE_FIELDS_comprehensive
    THEN comprehensive_string(JStr(k), "", mode).s
    ELSE k

\* result[key] = v on a dict held as (keys, values): a key already there keeps
\* its place and takes the new value
DictSet(d, key, v) ==
    IF \E i \in 1..Len(d.keys) : d.keys[i] = key
    THEN LET i == CHOOSE i \in 1..Len(d.keys) : d.keys[i] = key IN
         [d EXCEPT !.c[i] = v]
    ELSE [d EXCEPT !.keys = Append(@, key), !.c = Append(@, v)]

RECURSIVE DictBuild(_, _, _)
\* lines 128-133: result = {}; result[key_i] = value_i in order
DictBuild(ks, items, n) ==
    IF n = 0 THEN JObj(<<>>, <<>>)
    ELSE DictSet(DictBuild(ks, items, n - 1), ks[n], items[n])

RECURSIVE comprehensive_translate_value(_, _, _)
comprehensive_translate_value(value, field_name, mode) ==
    CASE value.t = "str" -> comprehensive_string(value, field_name, mode)
      [] value.t = "obj" ->
            LET items == [i \in 1..Len(value.c) |->
                    comprehensive_translate_value(value.c[i], value.keys[i], mode)]
                ks == [i \in 1..Len(value.c) |-> comprehensive_key(value.keys[i], mode)]
            IN IF IsRaise(ListOrRaise(items)) THEN ListOrRaise(items)
               ELSE DictBuild(ks, items, Len(items))
      [] value.t = "arr" ->
            IF value.c = <<>> THEN value
            ELSE IF IsStr(value.c[1])
            THEN IF field_name \in StringArrayNames
                    \/ comprehensive_should_translate_field(field_name, value.c[1])
                 THEN ListOrRaise([i \in 1..Len(value.c) |->
                        IF IsStr(value.c[i]) /\ StripTruthy(value.c[i].s)
                        THEN translate_func(mode, value.c[i].s)
                        ELSE value.c[i]])
                 ELSE value
            ELSE ListOrRaise([i \in 1..Len(value.c) |->
                    comprehensive_translate_value(value.c[i], field_name, mode)])
      [] OTHER -> value

(***************************************************************************)
(* translate_deepl.translate_value                                         *)
(***************************************************************************)
\* [f(item) if item.strip() else item for item in value]
StripGuardedMap(value, results) ==
    ListOrRaise([i \in 1..Len(value.c) |->
        IF ~IsStr(value.c[i]) THEN Raise("AttributeError")
        ELSE IF StripTruthy(value.c[i].s) THEN results[i]
        ELSE value.c[i]])

\* translate_deepl(item, ...) on any JSON value: the blank test is inside the
\* try, so a non-string comes back as it is
translate_deepl_any(mode, item) ==
    IF IsStr(item) THEN translate_deepl(mode, item.s) ELSE item

\* item in archetype_map[...]: a list or a dict is unhashable
InArchetypeMap(item) == IsStr(item) /\ item.s \in DOMAIN archetype_map

deepl_string_array_generic(value, field_name, mode) ==
    StripGuardedMap(value, [i \in 1..Len(value.c) |->
        translate_deepl_any(mode, value.c[i])])

RECURSIVE deepl_translate_value(_, _, _)
deepl_translate_value(value, field_name, mode) ==
    CASE value.t = "str" ->
            IF deny_should_translate_field(field_name, value, TRANSLATABLE, NON_TRANSLATABLE)
               /\ StripTruthy(value.s)
            THEN translate_deepl(mode, value.s)
            ELSE value
      [] value.t = "obj" ->
            DictOrRaise(value.keys, [i \in 1..Len(value.c) |->
                deepl_translate_value(value.c[i], value.keys[i], mode)])
      [] value.t = "arr" ->
            IF value.c = <<>> THEN value
            ELSE IF IsStr(value.c[1]) /\ field_name \in StringArrayNames
            THEN deepl_string_array_generic(value, field_name, mode)
            ELSE IF IsStr(value.c[1]) /\ field_name = "archetypes"
            THEN ListOrRaise([i \in 1..Len(value.c) |->
                    IF value.c[i].t \in {"arr", "obj"} THEN Raise("TypeError")
                    ELSE IF InArchetypeMap(value.c[i])
                    THEN JStr(archetype_map[value.c[i].s])
                    ELSE translate_deepl_any(mode, value.c[i])])
            ELSE IF IsStr(value.c[1]) /\ StripTruthy(value.c[1].s)
            THEN deepl_string_array_generic(value, field_name, mode)
            ELSE ListOrRaise([i \in 1..Len(value.c) |->
                    deepl_translate_value(value.c[i], field_name, mode)])
      [] OTHER -> value

(***************************************************************************)
(* translate_fast.translate_value_recursive                                *)
(***************************************************************************)
\* translate_func(item, ...) on any JSON value; translate_fast hands
\* translate_with_progress, which gives a non-string to translate_text
translate_func_any(mode, item) ==
    IF IsStr(item) THEN translate_func(mode, item.s)
    ELSE IF mode = "raise" THEN Raise("ImportError")
    ELSE translate_text_any(mode, item)

RECURSIVE fast_translate_value_recursive(_, _, _)
fast_translate_value_recursive(value, field_name, mode) ==
    CASE value.t = "str" ->
            IF fast_inline_rule(field_name, value, TRANSLATABLE, NON_TRANSLATABLE)
            THEN IF IsRaise(translate_func(mode, value.s)) THEN value
                 ELSE translate_func(mode, value.s)
            ELSE value
      [] value.t = "obj" ->
            DictOrRaise(value.keys, [i \in 1..Len(value.c) |->
                fast_translate_value_recursive(value.c[i], value.keys[i], mode)])
      [] value.t = "arr" ->
            IF value.c = <<>> THEN value
            ELSE IF IsStr(value.c[1]) /\ field_name \in StringArrayNames
            THEN StripGuardedMap(value, [i \in 1..Len(value.c) |->
                    translate_func_any(mode, value.c[i])])
            ELSE IF IsStr(value.c[1]) /\ field_name = "archetypes"
            THEN \* .get(item, translate_func(item, ...)): the default is evaluated first
                 ListOrRaise([i \in 1..Len(value.c) |->
                    IF IsRaise(translate_func_any(mode, value.c[i]))
                    THEN translate_func_any(mode, value.c[i])
                    ELSE IF value.c[i].t \in {"arr", "obj"} THEN Raise("TypeError")
                    ELSE IF InArchetypeMap(value.c[i])
                    THEN JStr(archetype_map[value.c[i].s])
                    ELSE translate_func_any(mode, value.c[i])])
            ELSE IF IsStr(value.c[1]) /\ StripTruthy(value.c[1].s)
            THEN StripGuardedMap(value, [i \in 1..Len(value.c) |->
                    translate_func_any(mode, value.c[i])])
            ELSE ListOrRaise([i \in 1..Len(value.c) |->
                    fast_translate_value_recursive(value.c[i], field_name, mode)])
      [] OTHER -> value

(***************************************************************************)
(* translate_teams_only.translate_value                                    *)
(***************************************************************************)
teams_only_string_array(value, mode) ==
    StripGuardedMap(value, [i \in 1..Len(value.c) |->
        translate_text_any(mode, value.c[i])])

RECURSIVE teams_only_translate_value(_, _, _)
teams_only_translate_value(value, field_name, mode) ==
    CASE value.t = "str" ->
            IF deny_should_translate_field(field_name, value, TRANSLATABLE, NON_TRANSLATABLE)
               /\ StripTruthy(value.s)
            THEN translate_text(mode, value.s)
            ELSE value
      [] value.t = "obj" ->
            DictOrRaise(value.keys, [i \in 1..Len(value.c) |->
                teams_only_translate_value(value.c[i], value.keys[i], mode)])
      [] value.t = "arr" ->
            IF value.c = <<>> THEN value
            ELSE IF IsStr(value.c[1]) /\ field_name \in StringArrayNames
            THEN teams_only_string_array(value, mode)
            ELSE IF IsStr(value.c[1]) /\ field_name = "archetypes"
            THEN ListOrRaise([i \in 1..Len(value.c) |->
                    IF value.c[i].t \in {"arr", "obj"} THEN Raise("TypeError")
                    ELSE IF InArchetypeMap(value.c[i])
                    THEN JStr(archetype_map[value.c[i].s])
                    ELSE translate_text_any(mode, value.c[i])])
            ELSE IF IsStr(value.c[1]) /\ StripTruthy(value.c[1].s)
            THEN teams_only_string_array(value, mode)
            ELSE ListOrRaise([i \in 1..Len(value.c) |->
                    teams_only_translate_value(value.c[i], field_name, mode)])
      [] OTHER -> value


(***************************************************************************)
(* translate_with_api.translate_value                                      *)
(***************************************************************************)
\* lines 84-87
translatable_fields ==
    {"name", "description", "killteamName", "opTypeName",
     "wepName", "abilityName", "ployName", "eqName",
     "optionName", "title", "profileName", "composition",
     "reveal", "additionalRules", "victoryPoints"}

RECURSIVE with_api_translate_value(_, _, _)
with_api_translate_value(value, field_name, mode) ==
    CASE value.t = "str" ->
            IF field_name \in translatable_fields /\ value.s # "" /\ StripTruthy(value.s)
            THEN IF IsRaise(translate_func(mode, value.s)) THEN value
                 ELSE translate_func(mode, value.s)
            ELSE value
      [] value.t = "obj" ->
            DictOrRaise(value.keys, [i \in 1..Len(value.c) |->
                with_api_translate_value(value.c[i], value.keys[i], mode)])
      [] value.t = "arr" ->
            IF field_name = "archetypes" /\ value.c # <<>> /\ IsStr(value.c[1])
            THEN \* .get(v, translate_func(v, ...)): the default is evaluated first
                 ListOrRaise([i \in 1..Len(value.c) |->
                    IF ~IsStr(value.c[i]) THEN value.c[i]
                    ELSE IF IsRaise(translate_func(mode, value.c[i].s))
                    THEN translate_func(mode, value.c[i].s)
                    ELSE IF InArchetypeMap(value.c[i])
                    THEN JStr(archetype_map[value.c[i].s])
                    ELSE translate_func(mode, value.c[i].s)])
            ELSE IF field_name \in {"effects", "conditions"} /\ value.c # <<>>
                    /\ IsStr(value.c[1])
            THEN ListOrRaise([i \in 1..Len(value.c) |->
                    IF IsStr(value.c[i]) /\ StripTruthy(value.c[i].s)
                    THEN translate_func(mode, value.c[i].s)
                    ELSE value.c[i]])
            ELSE IF field_name = "packs" /\ value.c # <<>> /\ IsStr(value.c[1])
            THEN ListOrRaise([i \in 1..Len(value.c) |->
                    IF IsStr(value.c[i]) THEN translate_func(mode, value.c[i].s)
                    ELSE value.c[i]])
            ELSE ListOrRaise([i \in 1..Len(value.c) |->
                    with_api_translate_value(value.c[i], field_name, mode)])
      [] OTHER -> value

(***************************************************************************)
(* translate_batch.py: collecting translation units, translating them in   *)
(* newline-joined batches, and writing them back by path.                  *)
(***************************************************************************)
Digits == "0123456789"

RECURSIVE IntToStr(_)
\* str(i) for i >= 0
IntToStr(i) ==
    IF i < 10 THEN CharAt(Digits, i + 1)
    ELSE IntToStr(i \div 10) \o CharAt(Digits, (i % 10) + 1)

IsDigit(ch) == \E d \in 1..10 : CharAt(Digits, d) = ch
DigitValue(ch) == (CHOOSE d \in 1..10 : CharAt(Digits, d) = ch) - 1

RECURSIVE StrToInt(_)
\* int(s) of a string of decimal digits
StrToInt(s) ==
    IF Len(s) = 1 THEN DigitValue(s)
    ELSE 10 * StrToInt(SubSeq(s, 1, Len(s) - 1)) + DigitValue(CharAt(s, Len(s)))

\* int(s) raises ValueError unless s is a number
IsIntLiteral(s) == s # "" /\ \A i \in 1..Len(s) : IsDigit(CharAt(s, i))

RECURSIVE Split(_, _)
\* s.split(sep) for a one-character sep
Split(s, sep) ==
    IF \E i \in 1..Len(s) : CharAt(s, i) = sep
    THEN LET i == CHOOSE i \in 1..Len(s) :
                    CharAt(s, i) = sep /\ \A j \in 1..(i - 1) : CharAt(s, j) # sep
         IN <<SubSeq(s, 1, i - 1)>> \o Split(SubSeq(s, i + 1, Len(s)), sep)
    ELSE <<s>>

RECURSIVE Join(_, _)
\* sep.join(strs)
Join(strs, sep) ==
    IF strs = <<>> THEN ""
    ELSE IF Len(strs) = 1 THEN strs[1]
    ELSE strs[1] \o sep \o Join(Tail(strs), sep)

RECURSIVE RStrip(_, _)
\* s.rstrip(ch)
RStrip(s, ch) ==
    IF s # "" /\ CharAt(s, Len(s)) = ch THEN RStrip(SubSeq(s, 1, Len(s) - 1), ch) ELSE s

batch_should_translate_field(field_name, value) ==
    deny_should_translate_field(field_name, value,
        TRANSLATABLE_FIELDS_batch, NON_TRANSLATABLE_FIELDS_batch)

\* f"{path}.{k}" if path else k
DictPath(path, k) == IF path # "" THEN path \o "." \o k ELSE k

\* f"{path}[{i}]" if path else f"[{i}]", for the 0-based index i
ListPath(path, i) == path \o "[" \o IntToStr(i) \o "]"

RECURSIVE Flatten(_)
\* strings.extend(...) over the children, in order
Flatten(lists) == IF lists = <<>> THEN <<>> ELSE Head(lists) \o Flatten(Tail(lists))

RECURSIVE collect_translatable_strings(_, _, _, _)
\* lines 104-123.  A unit is {path, field, value}; loc (the child positions
\* from the root down to the leaf) is kept beside it to say which leaf it is.
collect_translatable_strings(data, field_name, path, loc) ==
    CASE data.t = "str" ->
            IF batch_should_translate_field(field_name, data) /\ StripTruthy(data.s)
            THEN <<[path |-> path, field |-> field_name, value |-> data.s, loc |-> loc]>>
            ELSE <<>>
      [] data.t = "obj" ->
            Flatten([i \in 1..Len(data.c) |->
                collect_translatable_strings(data.c[i], data.keys[i],
                    DictPath(path, data.keys[i]), Append(loc, i))])
      [] data.t = "arr" ->
            Flatten([i \in 1..Len(data.c) |->
                IF IsStr(data.c[i]) /\ batch_should_translate_field(field_name, data.c[i])
                   /\ StripTruthy(data.c[i].s)
                THEN <<[path |-> ListPath(path, i - 1), field |-> field_name,
                        value |-> data.c[i].s, loc |-> Append(loc, i)]>>
                ELSE collect_translatable_strings(data.c[i], field_name,
                        ListPath(path, i - 1), Append(loc, i))])
      [] OTHER -> <<>>

\* one subscript: a key (current[part]) or a list index (current[idx])
KeyStep(k) == [isKey |-> TRUE, key |-> k, idx |-> 0]
IdxStep(n) == [isKey |-> FALSE, key |-> "", idx |-> n]
BadPart(e) == [err |-> e, steps |-> <<>>]

\* lines 144-153 and 157-165: the subscripts one dotted part stands for
PartSteps(part) ==
    IF ~(\E i \in 1..Len(part) : CharAt(part, i) = "[")
    THEN [err |-> "", steps |-> <<KeyStep(part)>>]
    ELSE LET pieces == Split(part, "[") IN
         IF Len(pieces) # 2 THEN BadPart("ValueError")      \* base, idx = ...
         ELSE LET digits == RStrip(pieces[2], "]") IN
              IF ~IsIntLiteral(digits) THEN BadPart("ValueError")
              ELSE IF pieces[1] # ""
                   THEN [err |-> "", steps |-> <<KeyStep(pieces[1]), IdxStep(StrToInt(digits))>>]
                   ELSE [err |-> "", steps |-> <<IdxStep(StrToInt(digits))>>]

\* current = current[step], or the exception it raises
GetStep(current, step) ==
    IF step.isKey
    THEN CASE current.t = "obj" ->
                IF \E i \in 1..Len(current.keys) : current.keys[i] = step.key
                THEN current.c[CHOOSE i \in 1..Len(current.keys) : current.keys[i] = step.key]
                ELSE Raise("KeyError")
           [] OTHER -> Raise("TypeError")
    ELSE CASE current.t = "arr" ->
                IF step.idx < Len(current.c) THEN current.c[step.idx + 1]
                ELSE Raise("IndexError")
           [] current.t = "obj" -> Raise("KeyError")
           [] current.t = "str" ->
                IF step.idx < Len(current.s) THEN JStr(CharAt(current.s, step.idx + 1))
                ELSE Raise("IndexError")
           [] OTHER -> Raise("TypeError")

\* current[step] = value, or the exception it raises
SetStep(current, step, value) ==
    IF step.isKey
    THEN CASE current.t = "obj" -> DictSet(current, step.key, value)
           [] OTHER -> Raise("TypeError")
    ELSE CASE current.t = "arr" ->
                IF step.idx < Len(current.c)
                THEN [current EXCEPT !.c[step.idx + 1] = value]
                ELSE Raise("IndexError")
           [] current.t = "obj" -> DictSet(current, IntToStr(step.idx), value)
           [] OTHER -> Raise("TypeError")

RECURSIVE SetAlong(_, _, _)
\* the container `current` after the in-place assignment at the end of
\* `steps`, or the exception raised on the way
SetAlong(current, steps, value) ==
    IF Len(steps) = 1 THEN SetStep(current, steps[1], value)
    ELSE LET child == GetStep(current, steps[1]) IN
         IF IsRaise(child) THEN child
         ELSE LET newChild == SetAlong(child, Tail(steps), value) IN
              IF IsRaise(newChild) THEN newChild
              ELSE IF steps[1].isKey
                   THEN DictSet(current, steps[1].key, newChild)
                   ELSE [current EXCEPT !.c[steps[1].idx + 1] = newChild]

RECURSIVE GetAlong(_, _)
\* current after the subscripts `steps`, or the exception raised on the way
GetAlong(current, steps) ==
    IF steps = <<>> THEN current
    ELSE LET child == GetStep(current, steps[1]) IN
         IF IsRaise(child) THEN child ELSE GetAlong(child, Tail(steps))

RECURSIVE SetByParts(_, _, _)
\* lines 143-165 from the dotted part parts[1] on: the container `current`
\* after the assignment, or the exception raised on the way
SetByParts(current, parts, value) ==
    LET p == PartSteps(parts[1]) IN
    IF p.err # "" THEN Raise(p.err)
    ELSE IF Len(parts) = 1 THEN SetAlong(current, p.steps, value)
    ELSE LET child == GetAlong(current, p.steps) IN
         IF IsRaise(child) THEN child
         ELSE LET newChild == SetByParts(child, Tail(parts), value) IN
              IF IsRaise(newChild) THEN newChild
              ELSE SetAlong(current, p.steps, newChild)

\* lines 138-165: data after set_value_by_path(data, path, value), or the
\* exception it raises
set_value_by_path(data, path, value) == SetByParts(data, Split(path, "."), JStr(value))

RECURSIVE apply_translations(_, _, _, _)
\* translate_file lines 200-202 from unit i on
apply_translations(data, units, translated_texts, i) ==
    IF i > Len(units) THEN data
    ELSE LET next == IF i <= Len(translated_texts)
                     THEN set_value_by_path(data, units[i].path, translated_texts[i])
                     ELSE data
         IN IF IsRaise(next) THEN next
            ELSE apply_translations(next, units, translated_texts, i + 1)

(***************************************************************************)
(* translate_batch.translate_batch                                         *)
(***************************************************************************)
max_chars == 4000

\* what the provider answers for a request text: the translation line by
\* line ("ok"), the text verbatim ("same": the stub), or the translation
\* with the line breaks lost ("merged")
ProviderAnswer(mode, text) ==
    CASE mode = "ok" -> Join([i \in 1..Len(Split(text, "\n")) |->
                               Translate(Split(text, "\n")[i])], "\n")
      [] mode = "merged" -> Join(Split(text, "\n"), " ")
      [] OTHER -> text

\* translate_batch.translate_text, lines 75-102
batch_translate_text(mode, text) ==
    IF text = "" \/ ~StripTruthy(text) THEN text ELSE ProviderAnswer(mode, text)

\* lines 47-50 and 60-62: one request for the current batch
TranslateCurrentBatch(mode, current_batch) ==
    Split(batch_translate_text(mode, Join(current_batch, "\n")), "\n")

RECURSIVE BatchLoop(_, _, _, _, _, _)
\* lines 41-63: the loop from texts[i] on, then the remaining batch
BatchLoop(mode, texts, i, results, current_batch, current_size) ==
    IF i > Len(texts)
    THEN IF current_batch # <<>>
         THEN results \o TranslateCurrentBatch(mode, current_batch)
         ELSE results
    ELSE LET text_size == Len(texts[i]) * 2 IN
         IF current_size + text_size > max_chars /\ current_batch # <<>>
         THEN BatchLoop(mode, texts, i + 1,
                        results \o TranslateCurrentBatch(mode, current_batch),
                        <<texts[i]>>, text_size)
         ELSE BatchLoop(mode, texts, i + 1, results,
                        Append(current_batch, texts[i]), current_size + text_size)

\* lines 25-73
translate_batch(mode, texts) ==
    LET results == BatchLoop(mode, texts, 1, <<>>, <<>>, 0) IN
    [i \in 1..Len(texts) |-> IF i <= Len(results) THEN results[i] ELSE ""]

(***************************************************************************)
(* translate_to_french.py, translate_to_spanish.py: the terminology walker *)
(***************************************************************************)
\* translate_to_french.ARCHETYPE_TRANSLATIONS
ARCHETYPE_TRANSLATIONS ==
    ("Security" :> "Sécurité") @@ ("Seek & Destroy" :> "Rechercher et Détruire")
    @@ ("Recon" :> "Reconnaissance") @@ ("Infiltration" :> "Infiltration")

\* translate_to_spanish.translate_value: archetype_translations
archetype_translations == archetype_map

ArchetypesOf(script) ==
    IF script = "french" THEN ARCHETYPE_TRANSLATIONS ELSE archetype_translations

\* table.get(v, v): a list or a dict is not hashable
ArchetypeGet(table, v) ==
    CASE v.t \in {"arr", "obj"} -> Raise("TypeError")
      [] IsStr(v) /\ v.s \in DOMAIN table -> JStr(table[v.s])
      [] OTHER -> v

RECURSIVE term_translate_value(_, _, _)
\* translate_to_french.translate_value (57-77), translate_to_spanish.translate_value (67-94)
term_translate_value(value, field_name, script) ==
    CASE value.t = "str" -> value
      [] value.t = "obj" ->
            DictOrRaise(value.keys, [i \in 1..Len(value.c) |->
                term_translate_value(value.c[i], value.keys[i], script)])
      [] value.t = "arr" ->
            IF field_name = "archetypes" /\ value.c # <<>> /\ IsStr(value.c[1])
            THEN ListOrRaise([i \in 1..Len(value.c) |->
                    ArchetypeGet(ArchetypesOf(script), value.c[i])])
            ELSE ListOrRaise([i \in 1..Len(value.c) |->
                    term_translate_value(value.c[i], field_name, script)])
      [] OTHER -> value

(***************************************************************************)
(* The per-document pipelines (translate_file, translate_teams_only.main)  *)
(***************************************************************************)
RECURSIVE SumSeq(_)
SumSeq(ns) == IF ns = <<>> THEN 0 ELSE Head(ns) + SumSeq(Tail(ns))

RECURSIVE count_strings(_, _, _, _)
\* translate_precise.translate_file: count_strings, lines 135-149
count_strings(obj, field, path, file_name) ==
    CASE obj.t = "str" ->
            IF Truthy(should_translate_field(file_name, path, field)) /\ StripTruthy(obj.s)
            THEN 1 ELSE 0
      [] obj.t = "obj" ->
            SumSeq([i \in 1..Len(obj.c) |->
                count_strings(obj.c[i], obj.keys[i], PathPlus(path, field), file_name)])
      [] obj.t = "arr" ->
            SumSeq([i \in 1..Len(obj.c) |-> count_strings(obj.c[i], field, path, file_name)])
      [] OTHER -> 0

\* translate_batch.translate_file, lines 178-202: collect, translate in
\* batches, write back by path (in place)
batch_translate_document(data, mode) ==
    LET translatable_strings == collect_translatable_strings(data, "", "", <<>>)
        texts == [i \in 1..Len(translatable_strings) |-> translatable_strings[i].value]
    IN apply_translations(data, translatable_strings, translate_batch(mode, texts), 1)

\* the walk each driver makes on the parsed data
PipeWalk(script, file_name, data, mode) ==
    CASE script = "precise" -> precise_translate_value(data, "", <<>>, file_name, mode)
      [] script = "comprehensive" -> comprehensive_translate_value(data, "", mode)
      [] script = "teams_only" -> teams_only_translate_value(data, "", mode)
      [] script = "batch" -> batch_translate_document(data, mode)
      [] script = "deepl" -> deepl_translate_value(data, "", mode)
      [] script = "fast" -> fast_translate_value_recursive(data, "", mode)
      [] OTHER -> term_translate_value(data, "", script)

\* no driver wraps the read in try/except
CatchesReadNowhere(script) == FALSE

\* the drivers whose translate_file wraps the read in try/except
CatchesRead(script) == script \notin {"french", "spanish"}
\* ... whose walk is inside try/except Exception
CatchesWalk(script) == script \in {"precise", "comprehensive", "teams_only", "deepl", "fast"}
\* ... whose write is inside try/except
CatchesWrite(script) == script \notin {"french", "spanish"}
\* ... whose main loop counts successes and prints the tally after the loop
Tallying(script) == script \in {"precise", "comprehensive", "batch", "deepl", "fast"}

(***************************************************************************)
(* Walker runs: a document, a script and a transform behaviour are drawn   *)
(* in Init; Walk calls the script's walker as its translate_file does.     *)
(***************************************************************************)
Walkers == {"precise", "comprehensive", "deepl", "fast", "teams_only", "with_api"}

\* the scripts whose walker is handed its transform as a parameter
TakesTransform == {"comprehensive", "fast", "with_api"}

WalkModes(script) ==
    IF script \in TakesTransform THEN {"ok", "same", "raise"} ELSE {"ok", "same"}

WalkFiles == {"actions.json", "teams/IMP-AOD.json", "unknown.json"}

WalkKeys ==
    {"name", "id", "effects", "packs", "archetypes", "opTypes", "actions",
     "teamCode", "_note", "notes"}
OuterKeys == {"opTypes", "actions", "notes"}
InnerKeys == {"name", "id", "effects", "opTypeName", "weapons"}

Strs == {"", " ", "Shoot", "Recon"}

Scalars == {JStr(s) : s \in Strs} \cup {JNum}

StrArrays == {JArr(q) : q \in SeqsUpTo({JStr(s) : s \in Strs}, MaxArrLen) \ {<<>>}}

OtherArrays ==
    {JArr(<<>>),
     JArr(<<JArr(<<JStr("Shoot")>>)>>),
     JArr(<<JStr("Shoot"), JNum>>),
     JArr(<<JStr("Shoot"), JObj(<<"name">>, <<JStr("Shoot")>>)>>),
     JArr(<<JNum, JStr("Shoot")>>)}

Values1 == Scalars \cup StrArrays \cup OtherArrays

Obj1(ks) == {JObj(<<k>>, <<v>>) : k \in ks, v \in Values1}

TwoKeyObjs ==
    {JObj(<<k1, k2>>, <<JStr("Shoot"), JStr("Recon")>>) :
        <<k1, k2>> \in {p \in WalkKeys \X (WalkKeys \cup {"es:name"}) : p[1] # p[2]}}

Docs ==
    Values1
    \cup Obj1(WalkKeys)
    \cup TwoKeyObjs
    \cup {JArr(<<o>>) : o \in Obj1(InnerKeys)}
    \cup {JObj(<<k>>, <<o>>) : k \in OuterKeys, o \in Obj1(InnerKeys)}
    \cup {JObj(<<k>>, <<JArr(<<o>>)>>) : k \in OuterKeys, o \in Obj1(InnerKeys)}

IdleWalk ==
    /\ wScript = ""
    /\ wFile = ""
    /\ wDoc = JNull
    /\ wMode = ""
    /\ wOut = JNull
    /\ wPhase = "idle"

IdleClassify ==
    /\ cScript = ""
    /\ cEnFile = ""
    /\ cFile = ""
    /\ cPath = <<>>
    /\ cField = ""
    /\ cValue = JNull
    /\ cIncl = {}
    /\ cExcl = {}
    /\ cOut = PyBool(FALSE)
    /\ cPhase = "idle"

IdleBatch ==
    /\ bDoc = JNull
    /\ bMode = ""
    /\ bUnits = <<>>
    /\ bTexts = <<>>
    /\ bData = JNull
    /\ bI = 1
    /\ bPhase = "idle"

IdlePipe ==
    /\ pScript = ""
    /\ pMode = ""
    /\ pFiles = <<>>
    /\ pIdx = 1
    /\ pPc = "idle"
    /\ pData = JNull
    /\ pDisk = <<>>
    /\ pOut = <<>>
    /\ pSuccess = 0
    /\ pCause = ""
    /\ pTally = FALSE
    /\ pSteps = <<>>

\* a file of the disk: absent, or holding a text
NoFile == [kind |-> "absent", text |-> ""]
FileOf(text) == [kind |-> "file", text |-> text]

IdleInPlace ==
    /\ iScript = "none"
    /\ iBackup = FALSE
    /\ iLinesep = "\n"
    /\ iFile = NoFile
    /\ iOrig = NoFile
    /\ iBackupFile = NoFile
    /\ iContent = ""
    /\ iData = JNull
    /\ iPc = "idle"
    /\ iLog = <<>>
    /\ iOut = "none"

\* no call of a provider function was made yet
NoCall == [called |-> FALSE, text |-> "", first |-> "", second |-> "", result |-> "", events |-> <<>>]

IdleRequests ==
    /\ rScript = ""
    /\ rTexts = <<>>
    /\ rI = 1
    /\ rTrace = <<>>
    /\ rLast = NoCall
    /\ rPc = "idle"

\* a directory that does not exist
NoDir == [dir |-> FALSE, files |-> {}]

IdleTools ==
    /\ tScript = ""
    /\ tSources = <<>>
    /\ tDisk = NoDir
    /\ tDisk0 = NoDir
    /\ tTeams = JNull
    /\ tI = 1
    /\ tSaved = 0
    /\ tOut = "none"
    /\ tPc = "idle"

IdleNormalize ==
    /\ nIn = JNull
    /\ nFirst = JNull
    /\ nOut = JNull
    /\ nCount = 0
    /\ nCount1 = 0
    /\ nPass = 0

InitWalk ==
    /\ IdleClassify
    /\ IdleBatch
    /\ IdlePipe
    /\ IdleInPlace
    /\ IdleRequests
    /\ IdleNormalize
    /\ IdleTools
    /\ wScript \in Walkers
    /\ wFile \in (IF wScript = "precise" THEN WalkFiles ELSE {""})
    /\ wDoc \in Docs
    /\ wMode \in WalkModes(wScript)
    /\ wOut = JNull
    /\ wPhase = "call"

\* the call each script's translate_file (or main) makes on the parsed data
RunWalker(script, file_name, data, mode) ==
    CASE script = "precise" -> precise_translate_value(data, "", <<>>, file_name, mode)
      [] script = "comprehensive" -> comprehensive_translate_value(data, "", mode)
      [] script = "deepl" -> deepl_translate_value(data, "", mode)
      [] script = "fast" -> fast_translate_value_recursive(data, "", mode)
      [] script = "with_api" -> with_api_translate_value(data, "", mode)
      [] OTHER -> teams_only_translate_value(data, "", mode)

Walk ==
    /\ wPhase = "call"
    /\ wOut' = RunWalker(wScript, wFile, wDoc, wMode)
    /\ wPhase' = "ret"
    /\ UNCHANGED <<wScript, wFile, wDoc, wMode>>
    /\ UNCHANGED NotWalkVars

NextWalk == Walk

SpecWalk == InitWalk /\ [][NextWalk]_vars

(***************************************************************************)
(* Claims about the walkers                                                *)
(***************************************************************************)
RECURSIVE SameShape(_, _)
\* same kind of node, same keys in the same order, same number of children,
\* and so for the children
SameShape(a, b) ==
    /\ a.t = b.t
    /\ a.keys = b.keys
    /\ Len(a.c) = Len(b.c)
    /\ \A i \in 1..Len(a.c) : SameShape(a.c[i], b.c[i])

\* C1: each recursive walker returns a value of the same shape as the
\* document: every object keeps exactly its keys in their order, every array
\* its length.
C1_ShapePreserved ==
    (wPhase = "ret" /\ wScript \in {"precise", "comprehensive", "deepl", "fast"}
        /\ ~IsRaise(wOut))
        => SameShape(wDoc, wOut)

\* the rule tree holds the flag True at exactly field_path + [field_name]
HoldsTrueFlag(file_name, field_path, field_name) ==
    /\ RulesKey(file_name) \in DOMAIN TRANSLATION_RULES
    /\ LET nav == NavigatePath(TRANSLATION_RULES[RulesKey(file_name)],
                               Append(field_path, field_name))
       IN nav.found /\ nav.node = PyTrue

IsStringArray(v) == v.t = "arr" /\ v.c # <<>> /\ IsStr(v.c[1])

RECURSIVE OnlyFlaggedChanged(_, _, _, _, _)
\* every string and every array of strings of `a` stored under a name for
\* which the rule tree holds no True flag is the same in `b`
OnlyFlaggedChanged(a, b, file_name, field_path, field_name) ==
    CASE IsStr(a) \/ IsStringArray(a) ->
            HoldsTrueFlag(file_name, field_path, field_name) \/ b = a
      [] a.t = "obj" /\ Len(b.c) = Len(a.c) ->
            \A i \in 1..Len(a.c) :
                OnlyFlaggedChanged(a.c[i], b.c[i], file_name,
                    PathPlus(field_path, field_name), a.keys[i])
      [] a.t = "arr" /\ Len(b.c) = Len(a.c) ->
            \A i \in 1..Len(a.c) :
                OnlyFlaggedChanged(a.c[i], b.c[i], file_name, field_path, field_name)
      [] OTHER -> TRUE

\* C3: translate_precise transforms a string, or an array of strings, only
\* where the rule tree holds the flag True at exactly field_path +
\* [field_name]; a name that names a nested rule subtree is not in scope.
C3_OnlyTrueFlagInScope ==
    (wPhase = "ret" /\ wScript = "precise" /\ ~IsRaise(wOut))
        => OnlyFlaggedChanged(wDoc, wOut, wFile, <<>>, "")

\* a field name the deny-list policy excludes
ExcludedName(script, field_name) ==
    \/ field_name \in ConfiguredExclude(script)
    \/ LooksLikeId(field_name)
    \/ StartsWith(field_name, "_")

RECURSIVE ExcludedArraysKept(_, _, _, _)
\* every array of strings of `a` stored under an excluded name is the same in `b`
ExcludedArraysKept(a, b, script, field_name) ==
    CASE IsStringArray(a) -> ExcludedName(script, field_name) => b = a
      [] a.t = "obj" /\ Len(b.c) = Len(a.c) ->
            \A i \in 1..Len(a.c) : ExcludedArraysKept(a.c[i], b.c[i], script, a.keys[i])
      [] a.t = "arr" /\ Len(b.c) = Len(a.c) ->
            \A i \in 1..Len(a.c) : ExcludedArraysKept(a.c[i], b.c[i], script, field_name)
      [] OTHER -> TRUE

\* C4: in the deny-list walkers an array of strings stored under an excluded
\* field name (in the exclude set, or ending in id/code, or starting with an
\* underscore) is returned unchanged.
C4_ExcludedStringArrayUnchanged ==
    (wPhase = "ret" /\ wScript \in {"deepl", "fast", "teams_only", "comprehensive"}
        /\ ~IsRaise(wOut))
        => ExcludedArraysKept(wDoc, wOut, wScript, "")

RECURSIVE TransparentWalk(_, _, _, _, _)
\* the walk with path-transparent arrays: a string is classified by the
\* nearest enclosing object key F and the object keys P above it, whatever
\* arrays lie between
TransparentWalk(value, F, P, file_name, mode) ==
    CASE value.t = "str" ->
            IF Truthy(should_translate_field(file_name, P, F)) /\ StripTruthy(value.s)
            THEN translate_text(mode, value.s)
            ELSE value
      [] value.t = "obj" ->
            JObj(value.keys, [i \in 1..Len(value.c) |->
                TransparentWalk(value.c[i], value.keys[i], PathPlus(P, F), file_name, mode)])
      [] value.t = "arr" ->
            JArr([i \in 1..Len(value.c) |->
                TransparentWalk(value.c[i], F, P, file_name, mode)])
      [] OTHER -> value

\* C12: array transparency in translate_precise.translate_value: every string
\* leaf is classified as should_translate_field(file, P, F), F the nearest
\* enclosing object key and P the object keys above it; arrays at any depth
\* add nothing to P and do not change F.
C12_ArraysAreTransparent ==
    (wPhase = "ret" /\ wScript = "precise" /\ ~IsRaise(wOut)) =>
        wOut = TransparentWalk(wDoc, "", <<>>, wFile, wMode)

RECURSIVE BlankKept(_, _)
\* every empty or whitespace-only string of a is the same string in b
BlankKept(a, b) ==
    CASE a.t = "str" -> StripTruthy(a.s) \/ b = a
      [] a.t \in {"arr", "obj"} ->
            (b.t = a.t /\ Len(b.c) = Len(a.c)) =>
                \A i \in 1..Len(a.c) : BlankKept(a.c[i], b.c[i])
      [] OTHER -> TRUE

\* C13: in every walker the leaf transform is never applied to an empty or
\* whitespace-only string, scalar or element of a string array ('effects',
\* 'conditions', 'packs', 'archetypes' included): such strings are unchanged
\* in the output.
C13_BlankStringsPassThrough ==
    (wPhase = "ret" /\ ~IsRaise(wOut)) => BlankKept(wDoc, wOut)

\* C14: for every document and file name, translate_precise.translate_value
\* run with a leaf transform that returns its input returns a value identical
\* to the document: same keys in the same order, same arrays, same scalars.
C14_IdentityWalkReturnsDocument ==
    (wPhase = "ret" /\ wScript = "precise" /\ wMode = "same") => wOut = wDoc

\* C28: translate_precise.translate_value is total: for every document and
\* every rule set it returns a value and never raises, mixed-type arrays
\* included.
C28_PreciseWalkNeverRaises ==
    (wPhase = "ret" /\ wScript = "precise") => ~IsRaise(wOut)

(***************************************************************************)
(* Classifier runs: the inputs are drawn in Init, Classify calls the       *)
(* classifier of the chosen script.                                        *)
(***************************************************************************)
\* the source paths translate_file is given: main's files under en/, and file
\* names given on the command line
EnFiles ==
    {"en/actions.json", "en/ops_2025.json", "en/teams/IMP-AOD.json", "en/teams.json",
     "en/weapon_rules.json", "en/universal_equipment.json", "en/unknown.json"}

\* the field names the rule table can tell apart: its keys and leaves, and
\* names it does not hold
RuleFieldNames ==
    {"name", "description", "effects", "opTypeName", "wepName", "profileName",
     "opTypes", "weapons", "actions", "id", "type", ""}

PathNames == {"actions", "opTypes", "weapons", "profiles", "ops", "bogus"}

FieldNames ==
    {"name", "description", "effects", "opTypeName", "wepName", "profileName",
     "opTypes", "weapons", "actions", "id", "type", "notes", "teamCode", "ID",
     "_private", ""}

FieldPaths == SeqsUpTo(PathNames, MaxPathLen)

\* names a deployer may add to either configured set
ExtraNames == {"type", "name", "notes"}

ClassifyValues == {JStr("Shoot"), JStr(" "), JStr(""), JNum}

InitClassify ==
    /\ IdleWalk
    /\ IdleBatch
    /\ IdlePipe
    /\ IdleInPlace
    /\ IdleRequests
    /\ IdleNormalize
    /\ IdleTools
    /\ cScript \in DenyScripts \cup {"precise"}
    /\ cPhase = "call"
    /\ cOut = PyFalse
    /\ IF cScript = "precise"
       THEN /\ cEnFile \in EnFiles
            /\ cFile = file_name_of(cEnFile)
            /\ cPath \in FieldPaths
            /\ cField \in RuleFieldNames
            /\ cValue = JNull
            /\ cIncl = {}
            /\ cExcl = {}
       ELSE /\ cEnFile = ""
            /\ cFile = ""
            /\ cPath = <<>>
            /\ cField \in FieldNames
            /\ cValue \in IF cScript = "fast" THEN {v \in ClassifyValues : IsStr(v)}
                                              ELSE ClassifyValues
            /\ cIncl \in {ConfiguredInclude(cScript) \cup S : S \in SUBSET ExtraNames}
            /\ cExcl \in {ConfiguredExclude(cScript) \cup S : S \in SUBSET ExtraNames}

ClassifyPrecise ==
    /\ cPhase = "call"
    /\ cScript = "precise"
    /\ cOut' = should_translate_field(cFile, cPath, cField)
    /\ cPhase' = "ret"
    /\ UNCHANGED <<cScript, cEnFile, cFile, cPath, cField, cValue, cIncl, cExcl>>
    /\ UNCHANGED NotClassifyVars

ClassifyDeny ==
    /\ cPhase = "call"
    /\ cScript \in DenyScripts
    /\ cOut' = PyBool(DenyClassify(cScript, cField, cValue, cIncl, cExcl))
    /\ cPhase' = "ret"
    /\ UNCHANGED <<cScript, cEnFile, cFile, cPath, cField, cValue, cIncl, cExcl>>
    /\ UNCHANGED NotClassifyVars

NextClassify == ClassifyPrecise \/ ClassifyDeny

SpecClassify == InitClassify /\ [][NextClassify]_vars

(***************************************************************************)
(* Claims about the classifiers                                            *)
(***************************************************************************)
RECURSIVE PresentIn(_, _)
\* every name of `names`, in order, is a key of the rule subtree reached so far
PresentIn(node, names) ==
    \/ names = <<>>
    \/ /\ node.isDict
       /\ Head(names) \in DOMAIN node.kids
       /\ PresentIn(node.kids[Head(names)], Tail(names))

\* the file identity has a rule set holding field_path + [field_name]
PresentInRules(file_name, field_path, field_name) ==
    /\ RulesKey(file_name) \in DOMAIN TRANSLATION_RULES
    /\ PresentIn(TRANSLATION_RULES[RulesKey(file_name)], Append(field_path, field_name))

\* C2: fail-closed classification: should_translate_field returns False when
\* the file has no rule set, or a segment of field_path is absent from the
\* subtree reached so far, or field_name is absent at the terminal node.
C2_FailClosed ==
    (cPhase = "ret" /\ cScript = "precise" /\ ~PresentInRules(cFile, cPath, cField))
        => cOut = PyFalse

\* C2 witness: a call whose first path segment is in the rules and whose second
\* is not has returned
C2_Witness ==
    /\ cPhase = "ret"
    /\ cScript = "precise"
    /\ cFile = "teams/IMP-AOD.json"
    /\ cPath = <<"opTypes", "bogus">>
    /\ cField = "wepName"
    /\ cOut = PyFalse

\* the document is a file of a folder named teams
InTeamsFolder(en_file) ==
    LET folder == SubSeq(en_file, 1, LastSlash(en_file) - 1)
    IN folder = "teams" \/ EndsWith(folder, "/teams")

\* what the rule set under a key holds for field_path + [field_name]
RuleUnder(rules_key, field_path, field_name) ==
    IF rules_key \in DOMAIN TRANSLATION_RULES
       /\ PresentIn(TRANSLATION_RULES[rules_key], Append(field_path, field_name))
    THEN NavigatePath(TRANSLATION_RULES[rules_key], field_path).node.kids[field_name]
    ELSE PyFalse

\* C27: in translate_precise a document is classified with the 'teams' rule
\* set exactly when it is a file of the teams/ subfolder, and otherwise with
\* the rule set keyed by its own file name, or with none
C27_TeamsRulesOnlyForTeamFiles ==
    (cPhase = "ret" /\ cScript = "precise") =>
        cOut = RuleUnder(IF InTeamsFolder(cEnFile) THEN "teams" ELSE PathName(cEnFile),
                         cPath, cField)

HeuristicInScope(field_name, value) ==
    /\ value.s # ""
    /\ \E i \in 1..Len(value.s) : CharAt(value.s, i) \notin Whitespace
    /\ ~(Len(field_name) > 0 /\ SubSeq(field_name, 1, 1) = "_")
    /\ \A suf \in {"id", "_id", "code", "_code"} : ~EndsWith(Lower(field_name), suf)

\* C11: deny-list heuristic: for a field name in neither the exclude set nor
\* the include set, every deny-list classifier puts a string value in scope
\* if and only if the value is non-blank, the name does not begin with an
\* underscore and the name does not end in id, _id, code or _code.
C11_DefaultHeuristic ==
    (cPhase = "ret" /\ cScript \in DenyScripts /\ IsStr(cValue)
        /\ cField \notin cExcl /\ cField \notin cIncl) =>
            (Truthy(cOut) <=> HeuristicInScope(cField, cValue))

(***************************************************************************)
(* Batch runs: translate_batch.translate_file on a parsed document, one    *)
(* step for collecting and translating, one per write-back.                *)
(***************************************************************************)
RECURSIVE Repeat(_, _)
\* s * n
Repeat(s, n) ==
    IF n = 0 THEN ""
    ELSE IF n % 2 = 0 THEN LET h == Repeat(s, n \div 2) IN h \o h
    ELSE s \o Repeat(s, n - 1)

\* a text whose estimated size alone exceeds max_chars
LongText == Repeat("x", (max_chars \div 2) + 1)

BatchModes == {"ok", "same", "merged"}

BatchKeys == {"name", "notes", "id", "", "a.b", "[0]"}

BatchStrs == {"Shoot", "a\nb", " ", LongText}

BatchLeaves == {JStr(s) : s \in BatchStrs} \cup {JNum}

BatchValues ==
    BatchLeaves
    \cup {JArr(q) : q \in SeqsUpTo({JStr("Shoot"), JStr("a\nb")}, MaxArrLen) \ {<<>>}}
    \cup {JArr(<<JArr(<<JStr("Shoot")>>)>>),
          JArr(<<JObj(<<"name">>, <<JStr("Shoot")>>)>>)}
    \cup {JObj(<<k>>, <<JStr("Shoot")>>) : k \in BatchKeys}

BatchDocs ==
    {JObj(<<k>>, <<v>>) : k \in BatchKeys, v \in BatchValues}
    \cup {JObj(<<"name", "notes", "title">>, <<a, b, c>>) : a, b, c \in BatchLeaves}
    \cup {JArr(<<v>>) : v \in BatchValues}

InitBatch ==
    /\ IdleClassify
    /\ IdleWalk
    /\ IdlePipe
    /\ IdleInPlace
    /\ IdleRequests
    /\ IdleNormalize
    /\ IdleTools
    /\ bDoc \in BatchDocs
    /\ bMode \in BatchModes
    /\ bUnits = <<>>
    /\ bTexts = <<>>
    /\ bData = bDoc
    /\ bI = 1
    /\ bPhase = "loaded"

\* lines 178-196: collect the units; none: [SKIP]; else translate them
BatchCollect ==
    /\ bPhase = "loaded"
    /\ LET translatable_strings == collect_translatable_strings(bDoc, "", "", <<>>)
           texts == [i \in 1..Len(translatable_strings) |-> translatable_strings[i].value]
       IN /\ bUnits' = translatable_strings
          /\ bTexts' = translate_batch(bMode, texts)
          /\ bPhase' = IF translatable_strings = <<>> THEN "skipped" ELSE "applying"
    /\ UNCHANGED <<bDoc, bMode, bData, bI>>
    /\ UNCHANGED NotBatchVars

\* lines 200-202: one iteration of the write-back loop
BatchApply ==
    /\ bPhase = "applying"
    /\ bI <= Len(bUnits)
    /\ LET next == set_value_by_path(bData, bUnits[bI].path, bTexts[bI]) IN
       IF IsRaise(next)
       THEN /\ bPhase' = "raised"
            /\ UNCHANGED <<bData, bI>>
       ELSE /\ bData' = next
            /\ bI' = bI + 1
            /\ bPhase' = IF bI = Len(bUnits) THEN "applied" ELSE "applying"
    /\ UNCHANGED <<bDoc, bMode, bUnits, bTexts>>
    /\ UNCHANGED NotBatchVars

NextBatch == BatchCollect \/ BatchApply

SpecBatch == InitBatch /\ [][NextBatch]_vars

(***************************************************************************)
(* Claims about the batch collector and write-back                         *)
(***************************************************************************)
RECURSIVE ReplaceAt(_, _, _)
\* v with the node at child positions loc replaced by new
ReplaceAt(v, loc, new) ==
    IF loc = <<>> THEN new
    ELSE [v EXCEPT !.c[loc[1]] = ReplaceAt(v.c[loc[1]], Tail(loc), new)]

RECURSIVE LeavesReplaced(_, _, _, _)
\* doc with the leaves of the first n units replaced by their texts
LeavesReplaced(doc, units, texts, n) ==
    IF n = 0 THEN doc
    ELSE ReplaceAt(LeavesReplaced(doc, units, texts, n - 1), units[n].loc, JStr(texts[n]))

\* C5: writing a value back by the path of a collected unit replaces exactly
\* the string leaf the unit was collected from and changes nothing else: no
\* key is added, no other leaf changes and no error is raised, whatever the
\* object keys (empty, containing '.' or '[') and the nesting of arrays.
C5_WriteBackHitsTheLeaf ==
    /\ bPhase # "raised"
    /\ bPhase \in {"applying", "applied"} =>
            bData = LeavesReplaced(bDoc, bUnits, bTexts, bI - 1)

\* C6: batch round-trip: with a provider that returns its input verbatim,
\* translate_batch returns exactly the collected strings, in order.
C6_BatchRoundTrip ==
    (bPhase \in {"applying", "applied", "raised"} /\ bMode = "same") =>
        bTexts = [i \in 1..Len(bUnits) |-> bUnits[i].value]

\* C22: the pass of translate_batch.translate_file does not mutate the value
\* it loaded: at every point of the collect / translate / apply pass the
\* object bound to data at load time still holds the document that was parsed
C22_LoadedValueNotMutated == bPhase # "idle" => bData = bDoc

(***************************************************************************)
(* Driver runs: the main loop of a script over its list of files, with the *)
(* reads, walks, interrupts and writes of each translate_file.             *)
(***************************************************************************)
MaxFiles == 2

Drivers ==
    {"teams_only", "precise", "comprehensive", "batch", "deepl", "fast", "french", "spanish"}

PipeModes(script) ==
    CASE script = "comprehensive" -> {"ok", "same", "raise"}
      [] script = "batch" -> {"ok", "same"}
      [] script \in {"french", "spanish"} -> {""}
      [] OTHER -> {"ok", "same"}

Missing == [kind |-> "missing", doc |-> JNull]
Malformed == [kind |-> "malformed", doc |-> JNull]
Parsed(d) == [kind |-> "json", doc |-> d]

Absent == [kind |-> "absent", doc |-> JNull]
Truncated == [kind |-> "truncated", doc |-> JNull]
Written(d) == [kind |-> "json", doc |-> d]

PipeDocs ==
    {JObj(<<"name">>, <<JStr("Shoot")>>),
     JObj(<<"actions">>, <<JArr(<<JObj(<<"name", "effects">>,
            <<JStr("Shoot"), JArr(<<JStr("Deal")>>)>>)>>)>>),
     JObj(<<"id">>, <<JNum>>),
     JObj(<<"notes">>, <<JArr(<<JArr(<<JStr("Shoot")>>)>>)>>),
     JObj(<<"archetypes">>, <<JArr(<<JStr("Recon"), JArr(<<JStr("x")>>)>>)>>)}

Sources == {Missing, Malformed} \cup {Parsed(d) : d \in PipeDocs}

\* what a destination holds before the run: nothing, or an earlier output
OldOutput == Written(JObj(<<"name">>, <<JStr("viejo")>>))

\* files[i] of the driver: the shared files first, then the team files
FileNameAt(script, i) ==
    IF script = "teams_only" THEN "teams.json"
    ELSE IF i = 1 THEN "actions.json" ELSE "teams/IMP-AOD.json"

InitPipe ==
    /\ IdleClassify
    /\ IdleWalk
    /\ IdleBatch
    /\ IdleInPlace
    /\ IdleRequests
    /\ IdleNormalize
    /\ IdleTools
    /\ pScript \in Drivers
    /\ pMode \in PipeModes(pScript)
    /\ pFiles \in IF pScript = "teams_only"
                  THEN {<<s>> : s \in Sources}
                  ELSE SeqsUpTo(Sources, MaxFiles) \ {<<>>}
    /\ pDisk \in {[i \in 1..Len(pFiles) |-> d] : d \in {Absent, OldOutput}}
    /\ pOut = [i \in 1..Len(pFiles) |-> "pending"]
    /\ pIdx = 1
    /\ pPc = "loop"
    /\ pData = JNull
    /\ pSuccess = 0
    /\ pCause = ""
    /\ pTally = FALSE
    /\ pSteps = <<>>

\* translate_file returns (or main returns, in translate_teams_only)
Return(outcome) ==
    /\ pOut' = [pOut EXCEPT ![pIdx] = outcome]
    /\ IF pScript = "teams_only"
       THEN pPc' = "exit" /\ pIdx' = pIdx
       ELSE pPc' = "loop" /\ pIdx' = pIdx + 1
    /\ pSuccess' = IF outcome = "ok" /\ Tallying(pScript) THEN pSuccess + 1 ELSE pSuccess
    /\ UNCHANGED <<pCause, pTally>>

\* an exception nothing catches ends the process
Propagate(cause) ==
    /\ pOut' = [pOut EXCEPT ![pIdx] = "raised"]
    /\ pPc' = "aborted"
    /\ pCause' = cause
    /\ UNCHANGED <<pIdx, pSuccess, pTally>>

\* the loop body up to the walk: exists(), open, json.load, the count or
\* collection that may skip the file
LoadFile ==
    /\ pPc = "loop"
    /\ pIdx <= Len(pFiles)
    /\ LET src == pFiles[pIdx]
           file_name == FileNameAt(pScript, pIdx)
       IN IF src.kind = "missing"
          THEN /\ Return(IF pScript = "teams_only" THEN "read_failed" ELSE "missing")
               /\ pSteps' = <<>>
               /\ UNCHANGED pData
          ELSE IF src.kind = "malformed"
          THEN /\ IF CatchesRead(pScript) THEN Return("read_failed")
                  ELSE Propagate("JSONDecodeError")
               /\ pSteps' = <<>>
               /\ UNCHANGED pData
          ELSE     IF \/ pScript = "precise" /\ count_strings(src.doc, "", <<>>, file_name) = 0
                      \/ pScript = "batch"
                         /\ collect_translatable_strings(src.doc, "", "", <<>>) = <<>>
                   THEN Return("skipped") /\ pSteps' = <<"loaded">> /\ UNCHANGED pData
                   ELSE /\ pData' = src.doc
                        /\ pPc' = "walk"
                        /\ pSteps' = <<"loaded">>
                        /\ UNCHANGED <<pOut, pIdx, pSuccess, pCause, pTally>>
    /\ UNCHANGED <<pScript, pMode, pFiles, pDisk>>
    /\ UNCHANGED NotPipeVars

\* the drivers that json.dumps() the translated data before they write it
Revalidates(script) == script \notin {"french", "spanish"}

\* the walk and, where the driver has one, the validation, which a JSON
\* value always passes
WalkDoc ==
    /\ pPc = "walk"
    /\ LET r == PipeWalk(pScript, FileNameAt(pScript, pIdx), pData, pMode) IN
       IF IsRaise(r)
       THEN /\ IF CatchesWalk(pScript) THEN Return("walk_failed") ELSE Propagate(r.s)
            /\ UNCHANGED <<pData, pSteps>>
       ELSE /\ pData' = r
            /\ pPc' = "write"
            /\ pSteps' = pSteps \o (IF Revalidates(pScript) THEN <<"walked", "validated">>
                                     ELSE <<"walked">>)
            /\ UNCHANGED <<pOut, pIdx, pSuccess, pCause, pTally>>
    /\ UNCHANGED <<pScript, pMode, pFiles, pDisk>>
    /\ UNCHANGED NotPipeVars

\* KeyboardInterrupt while the walk is running.  translate_teams_only.main
\* (205-216) opens the destination for writing and dumps translated_data,
\* which the interrupted assignment never bound: the dump raises and the
\* handler's except Exception reports it.
InterruptWalk ==
    /\ pPc = "walk"
    /\ IF pScript = "teams_only"
       THEN \E opened \in BOOLEAN :
                /\ pDisk' = IF opened THEN [pDisk EXCEPT ![pIdx] = Truncated] ELSE pDisk
                /\ pSteps' = IF opened THEN Append(pSteps, "written") ELSE pSteps
                /\ Return("interrupted")
       ELSE IF pScript = "precise"
       THEN Return("interrupted") /\ UNCHANGED <<pDisk, pSteps>>
       ELSE Propagate("KeyboardInterrupt") /\ UNCHANGED <<pDisk, pSteps>>
    /\ UNCHANGED <<pScript, pMode, pFiles, pData>>
    /\ UNCHANGED NotPipeVars

\* open(target_file, 'w') and json.dump: done, or open fails, or the dump
\* fails after the file was opened (and so emptied)
WriteFile ==
    /\ pPc = "write"
    /\ \E outcome \in {"ok", "open_fails", "dump_fails"} :
         /\ pDisk' = CASE outcome = "ok" -> [pDisk EXCEPT ![pIdx] = Written(pData)]
                       [] outcome = "dump_fails" -> [pDisk EXCEPT ![pIdx] = Truncated]
                       [] OTHER -> pDisk
         /\ pSteps' = IF outcome = "open_fails" THEN pSteps ELSE Append(pSteps, "written")
         /\ IF outcome = "ok" THEN Return("ok")
            ELSE IF CatchesWrite(pScript) THEN Return("write_failed")
            ELSE Propagate("OSError")
    /\ UNCHANGED <<pScript, pMode, pFiles, pData>>
    /\ UNCHANGED NotPipeVars

\* after the loop: the tally line, in the drivers that print one
Finish ==
    /\ pPc = "loop"
    /\ pIdx > Len(pFiles)
    /\ pPc' = "exit"
    /\ pTally' = Tallying(pScript)
    /\ UNCHANGED <<pScript, pMode, pFiles, pIdx, pData, pDisk, pOut, pSuccess, pCause, pSteps>>
    /\ UNCHANGED NotPipeVars

NextPipe == LoadFile \/ WalkDoc \/ InterruptWalk \/ WriteFile \/ Finish

SpecPipeline == InitPipe /\ [][NextPipe]_vars

(***************************************************************************)
(* Claims about the pipelines and drivers                                  *)
(***************************************************************************)
\* C7: after an interrupt during the walk of a document, the destination is
\* either as it was before the run or holds a well-formed JSON document; it
\* is never left truncated or empty (translate_teams_only.main,
\* translate_precise.translate_file).
C7_InterruptLeavesDestinationWhole ==
    \A i \in 1..Len(pOut) :
        (pScript \in {"teams_only", "precise"} /\ pOut[i] = "interrupted") =>
            pDisk[i].kind # "truncated"

\* C8: when the leaf transform raises, for a scalar or for an element of a
\* string array, the leaf keeps its original string, and translate_file
\* still succeeds and writes the document.
C8_LeafFailureIsLocal ==
    \A i \in 1..Len(pOut) :
        (pMode = "raise" /\ pFiles[i].kind = "json") =>
            /\ pOut[i] # "walk_failed"
            /\ pOut[i] = "ok" => pDisk[i] = Written(pFiles[i].doc)

LoopDrivers == {"batch", "precise", "comprehensive", "french", "spanish"}

\* C9: in the batch drivers a failure while processing one document never
\* aborts the run: the remaining documents are processed and the success
\* tally is reported at the end.
C9_DocumentIsolation ==
    pScript \in LoopDrivers =>
        /\ ~(pPc = "aborted" /\ pCause # "KeyboardInterrupt")
        /\ pPc = "exit" => pTally

\* the outcomes of a call that failed: the walk raised or was interrupted, or
\* the result could not be written
FailedOutcomes == {"walk_failed", "write_failed", "raised", "interrupted"}

\* C30: in translate_precise.translate_file and translate_batch.translate_file
\* every document that loads as valid JSON, whose walk completes and whose
\* result is written without error ends Written: the destination holds the
\* result and the call returns success, also for a document without in-scope
\* strings.
C30_LoadedDocumentReachesWritten ==
    \A i \in 1..Len(pOut) :
        (pScript \in {"precise", "batch"} /\ pFiles[i].kind = "json"
            /\ pOut[i] \notin FailedOutcomes \cup {"pending"}) =>
                (pOut[i] = "ok" /\ pDisk[i].kind = "json")

(***************************************************************************)
(* Files as text: reading and writing in text mode, json.dump, json.loads  *)
(***************************************************************************)
RECURSIVE Gather(_, _, _)
\* ''.join(pieces[lo..hi])
Gather(pieces, lo, hi) ==
    IF lo > hi THEN ""
    ELSE IF lo = hi THEN pieces[lo]
    ELSE LET mid == (lo + hi) \div 2
         IN Gather(pieces, lo, mid) \o Gather(pieces, mid + 1, hi)

\* f.read() of a file opened in text mode: universal newlines, "\r\n" and a
\* lone "\r" both read as "\n"
ReadText(raw) ==
    Gather([i \in 1..Len(raw) |->
                IF CharAt(raw, i) # "\r" THEN CharAt(raw, i)
                ELSE IF i < Len(raw) /\ CharAt(raw, i + 1) = "\n" THEN "" ELSE "\n"],
           1, Len(raw))

\* f.write(text) to a file opened in text mode: "\n" becomes os.linesep
WriteText(text, linesep) ==
    Gather([i \in 1..Len(text) |-> IF CharAt(text, i) = "\n" THEN linesep ELSE CharAt(text, i)],
           1, Len(text))

Indent(level) == Repeat("  ", level)

RECURSIVE DumpItems(_, _, _)
RECURSIVE Dump(_, _)
\* json.dumps(value, ensure_ascii=False, indent=2), at a nesting level
Dump(value, level) ==
    CASE value.t = "str" -> "\"" \o value.s \o "\""
      [] value.t = "num" -> "1"
      [] value.t = "null" -> "null"
      [] value.t = "arr" ->
            IF value.c = <<>> THEN "[]"
            ELSE "[\n" \o DumpItems(value, 1, level + 1) \o "\n" \o Indent(level) \o "]"
      [] OTHER ->
            IF value.c = <<>> THEN "{}"
            ELSE "{\n" \o DumpItems(value, 1, level + 1) \o "\n" \o Indent(level) \o "}"

\* the items of a list or dict from the i-th on, one per line
DumpItems(value, i, level) ==
    LET item == Indent(level)
                \o (IF value.t = "obj" THEN "\"" \o value.keys[i] \o "\": " ELSE "")
                \o Dump(value.c[i], level)
    IN IF i = Len(value.c) THEN item
       ELSE item \o ",\n" \o DumpItems(value, i + 1, level)

(***************************************************************************)
(* check_unicode.py                                                        *)
(***************************************************************************)
\* a table whose last entry maps into an earlier entry's character
TableMappingIntoItself ==
    << <<"´", "'">>, <<"¨", "'">>, <<"«", "\"">>, <<"»", "\"">>,
       <<"¬", "-">>, <<"¯", "-">>, <<"¤", " ">>, <<"·", "...">>,
       <<"Â", "A">>, <<"Ô", "O">>, <<"â", "Â">>, <<"ô", "o">> >>

\* a table whose first entry maps into a later entry's character
TableCountingTwice ==
    << <<"´", "Â">>, <<"¨", "'">>, <<"«", "\"">>, <<"»", "\"">>,
       <<"¬", "-">>, <<"¯", "-">>, <<"¤", " ">>, <<"·", "...">>,
       <<"Â", "A">>, <<"Ô", "O">>, <<"â", "a">>, <<"ô", "o">> >>

\* lines 11-24.  A string of the model holds characters up to U+00FF only, so
\* each mapped character beyond that is written as a character of that range
\* that occurs nowhere else in the model:
\*   U+2019 as U+00B4, U+2018 as U+00A8, U+201C as U+00AB, U+201D as U+00BB,
\*   U+2013 as U+00AC, U+2014 as U+00AF, U+2026 as U+00B7, U+00A0 as U+00A4
UNICODE_TO_ASCII ==
    << <<"´", "'">>, <<"¨", "'">>, <<"«", "\"">>, <<"»", "\"">>,
       <<"¬", "-">>, <<"¯", "-">>, <<"¤", " ">>, <<"·", "...">>,
       <<"Â", "A">>, <<"Ô", "O">>, <<"â", "a">>, <<"ô", "o">> >>

\* fixed.count(unicode_char)
CountChar(s, ch) == Cardinality({i \in 1..Len(s) : CharAt(s, i) = ch})

\* fixed.replace(unicode_char, ascii_char)
ReplaceChar(s, ch, to) ==
    Gather([i \in 1..Len(s) |-> IF CharAt(s, i) = ch THEN to ELSE CharAt(s, i)], 1, Len(s))

RECURSIVE FixLoop(_, _, _)
\* lines 67-74: the loop over the table from its k-th entry on, in the
\* table's order, each entry counted and replaced in what the earlier
\* entries left
FixLoop(fixed, count, k) ==
    IF k > Len(UNICODE_TO_ASCII) THEN [fixed |-> fixed, count |-> count]
    ELSE FixLoop(ReplaceChar(fixed, UNICODE_TO_ASCII[k][1], UNICODE_TO_ASCII[k][2]),
                 count + CountChar(fixed, UNICODE_TO_ASCII[k][1]),
                 k + 1)

\* lines 65-75: the string returned
FixedString(s) == FixLoop(s, 0, 1).fixed

\* lines 69-71: what one string adds to replacements_count[0]
CountMapped(s) == FixLoop(s, 0, 1).count

RECURSIVE fix_string_value(_)
\* lines 62-80: the returned value
fix_string_value(value) ==
    CASE value.t = "str" -> JStr(FixedString(value.s))
      [] value.t = "obj" -> JObj(value.keys, [i \in 1..Len(value.c) |-> fix_string_value(value.c[i])])
      [] value.t = "arr" -> JArr([i \in 1..Len(value.c) |-> fix_string_value(value.c[i])])
      [] OTHER -> value

RECURSIVE replacements_count(_)
\* lines 62-80: replacements_count[0] after the call
replacements_count(value) ==
    CASE value.t = "str" -> CountMapped(value.s)
      [] value.t \in {"obj", "arr"} ->
            SumSeq([i \in 1..Len(value.c) |-> replacements_count(value.c[i])])
      [] OTHER -> 0

(***************************************************************************)
(* clean_team_fields.py                                                    *)
(***************************************************************************)
RECURSIVE PopAll(_, _, _)
\* obj.pop(field, None) for every field: the dict without those keys, from
\* the i-th key on
PopAll(obj, fields, i) ==
    IF i > Len(obj.keys) THEN JObj(<<>>, <<>>)
    ELSE LET rest == PopAll(obj, fields, i + 1) IN
         IF obj.keys[i] \in fields THEN rest
         ELSE JObj(<<obj.keys[i]>> \o rest.keys, <<obj.c[i]>> \o rest.c)

root_fields_to_remove == {"isPublished", "isHomebrew", "userId"}
opType_fields_to_remove ==
    {"nameType", "isOpType", "isActivated", "currWOUNDS", "opName", "opType", "opId"}

HasKey(obj, k) == \E i \in 1..Len(obj.keys) : obj.keys[i] = k
ValueOf(obj, k) == obj.c[CHOOSE i \in 1..Len(obj.keys) : obj.keys[i] = k]

\* lines 49-50
CleanWeapon(weapon) ==
    IF weapon.t # "obj" THEN Raise("AttributeError") ELSE PopAll(weapon, {"isDefault"}, 1)

\* lines 43-50, one opType
CleanOpType(opType) ==
    IF opType.t = "obj"
    THEN LET popped == PopAll(opType, opType_fields_to_remove, 1) IN
         IF HasKey(popped, "weapons") /\ ValueOf(popped, "weapons").t = "arr"
         THEN LET ws == ListOrRaise([i \in 1..Len(ValueOf(popped, "weapons").c) |->
                            CleanWeapon(ValueOf(popped, "weapons").c[i])])
              IN IF IsRaise(ws) THEN ws ELSE DictSet(popped, "weapons", ws)
         ELSE popped
    ELSE Raise("AttributeError")

\* lines 35-50: data after the removals, or the exception raised
clean_data(data) ==
    IF data.t # "obj" THEN Raise("AttributeError")
    ELSE LET popped == PopAll(data, root_fields_to_remove, 1) IN
         IF HasKey(popped, "opTypes") /\ ValueOf(popped, "opTypes").t = "arr"
         THEN LET ops == ListOrRaise([i \in 1..Len(ValueOf(popped, "opTypes").c) |->
                            CleanOpType(ValueOf(popped, "opTypes").c[i])])
              IN IF IsRaise(ops) THEN ops ELSE DictSet(popped, "opTypes", ops)
         ELSE popped

(***************************************************************************)
(* Runs of the tools that rewrite a file in place                          *)
(***************************************************************************)
InPlaceScripts == {"check_unicode", "clean_team_fields"}

InPlaceDocs ==
    { JObj(<<"a">>, <<JStr("it´s")>>),
      JObj(<<"a">>, <<JStr("plain")>>),
      JObj(<<"it´s">>, <<JStr("x·y")>>),
      JArr(<<JStr("a¬b")>>),
      JObj(<<"opTypes">>, <<JArr(<<JNum>>)>>),
      JObj(<<"ploys">>, <<JArr(<<JObj(<<"isDefault", "name">>, <<JNum, JStr("Dash")>>)>>)>>),
      JObj(<<"isPublished", "opTypes">>,
           <<JNum, JArr(<<JObj(<<"opName", "weapons">>,
                               <<JStr("x"), JArr(<<JObj(<<"isDefault", "wepName">>,
                                                        <<JNum, JStr("Bolt«gun»")>>)>>)>>)>>)>>) }

LineSeps == {"\n", "\r\n"}

\* what the file may hold before the run: a document as json.dump lays it
\* out, with either line ending and with or without a final newline, or text
\* that is not JSON
FileTexts ==
    { WriteText(Dump(d, 0) \o tail, eol) : d \in InPlaceDocs, tail \in {"", "\n"}, eol \in LineSeps }
    \cup {"{\"a\": "}

\* json.loads(content): the document the text lays out, or JSONDecodeError
Parse(content) ==
    IF \E d \in InPlaceDocs : content \in {Dump(d, 0), Dump(d, 0) \o "\n"}
    THEN CHOOSE d \in InPlaceDocs : content \in {Dump(d, 0), Dump(d, 0) \o "\n"}
    ELSE Raise("JSONDecodeError")

InitInPlace ==
    /\ IdleClassify /\ IdleWalk /\ IdleBatch /\ IdlePipe /\ IdleRequests /\ IdleNormalize
    /\ IdleTools
    /\ iScript \in InPlaceScripts
    /\ iBackup \in (IF iScript = "check_unicode" THEN BOOLEAN ELSE {FALSE})
    /\ iLinesep \in LineSeps
    /\ iFile \in {NoFile} \cup {FileOf(t) : t \in FileTexts}
    /\ iOrig = iFile
    /\ iBackupFile \in {NoFile, FileOf("old backup")}
    /\ iContent = ""
    /\ iData = JNull
    /\ iPc = "start"
    /\ iLog = <<>>
    /\ iOut = "none"

\* check_unicode.py lines 83-96, clean_team_fields.py lines 31-33: the file is
\* read in text mode and parsed
ReadAndParse ==
    /\ iPc = "start"
    /\ LET content == ReadText(iFile.text)
           data == IF iFile = NoFile THEN Raise("FileNotFoundError") ELSE Parse(content)
       IN IF IsRaise(data)
          THEN /\ iPc' = "returned"
               /\ iOut' = "False"
               /\ UNCHANGED <<iContent, iData>>
          ELSE /\ iPc' = "parsed"
               /\ iContent' = content
               /\ iData' = data
               /\ UNCHANGED iOut
    /\ UNCHANGED <<iScript, iBackup, iLinesep, iFile, iOrig, iBackupFile, iLog>>
    /\ UNCHANGED NotInPlaceVars

\* check_unicode.py lines 98-103: the backup, written outside any try
WriteBackup ==
    /\ iPc = "parsed"
    /\ iScript = "check_unicode"
    /\ IF iBackup
       THEN \E outcome \in {"ok", "open_fails", "write_fails"} :
              /\ iBackupFile' = CASE outcome = "ok" -> FileOf(WriteText(iContent, iLinesep))
                                  [] outcome = "open_fails" -> iBackupFile
                                  [] OTHER -> FileOf("")
              /\ iLog' = IF outcome = "open_fails" THEN iLog ELSE Append(iLog, "backup")
              /\ iPc' = IF outcome = "ok" THEN "backed" ELSE "raised"
              /\ iOut' = IF outcome = "ok" THEN iOut ELSE "OSError"
       ELSE /\ iPc' = "backed"
            /\ UNCHANGED <<iBackupFile, iLog, iOut>>
    /\ UNCHANGED <<iScript, iBackup, iLinesep, iFile, iOrig, iContent, iData>>
    /\ UNCHANGED NotInPlaceVars

\* check_unicode.py lines 105-128: fix, validate, overwrite outside any try
FixAndWrite ==
    /\ iPc = "backed"
    /\ IF replacements_count(iData) = 0
       THEN /\ iPc' = "returned"
            /\ iOut' = "False"
            /\ UNCHANGED <<iFile, iLog>>
       ELSE \E outcome \in {"ok", "open_fails", "write_fails"} :
              /\ iFile' = CASE outcome = "ok" ->
                                   FileOf(WriteText(Dump(fix_string_value(iData), 0), iLinesep))
                            [] outcome = "open_fails" -> iFile
                            [] OTHER -> FileOf("")
              /\ iLog' = IF outcome = "open_fails" THEN iLog ELSE Append(iLog, "file")
              /\ iPc' = IF outcome = "ok" THEN "returned" ELSE "raised"
              /\ iOut' = IF outcome = "ok" THEN "True" ELSE "OSError"
    /\ UNCHANGED <<iScript, iBackup, iLinesep, iOrig, iBackupFile, iContent, iData>>
    /\ UNCHANGED NotInPlaceVars

\* clean_team_fields.py lines 35-59: remove the fields and write the file
\* back, every exception caught
CleanAndWrite ==
    /\ iPc = "parsed"
    /\ iScript = "clean_team_fields"
    /\ LET cleaned == clean_data(iData) IN
       IF IsRaise(cleaned)
       THEN /\ iOut' = "False"
            /\ UNCHANGED <<iFile, iLog>>
       ELSE \E outcome \in {"ok", "open_fails", "write_fails"} :
              /\ iFile' = CASE outcome = "ok" -> FileOf(WriteText(Dump(cleaned, 0), iLinesep))
                            [] outcome = "open_fails" -> iFile
                            [] OTHER -> FileOf("")
              /\ iLog' = IF outcome = "open_fails" THEN iLog ELSE Append(iLog, "file")
              /\ iOut' = IF outcome = "ok" THEN "True" ELSE "False"
    /\ iPc' = "returned"
    /\ UNCHANGED <<iScript, iBackup, iLinesep, iOrig, iBackupFile, iContent, iData>>
    /\ UNCHANGED NotInPlaceVars

NextInPlace == ReadAndParse \/ WriteBackup \/ FixAndWrite \/ CleanAndWrite

SpecInPlace == InitInPlace /\ [][NextInPlace]_vars

\* the file was overwritten only after a backup holding exactly what the file
\* held before the run
BackedUpFirst ==
    "file" \in {iLog[i] : i \in 1..Len(iLog)} =>
        /\ iLog[1] = "backup"
        /\ iBackupFile = iOrig

\* C15: whenever check_unicode.fix_file has overwritten F, F.backup was written
\* first and holds exactly the content F had before the fix
C15_FixBacksUpFirst == iScript = "check_unicode" => BackedUpFirst

\* C16: whenever clean_team_fields.clean_team_file has overwritten the file it
\* read, a backup under a sibling name was written first and holds the content
\* the file had before
C16_CleanBacksUpFirst == iScript = "clean_team_fields" => BackedUpFirst

(***************************************************************************)
(* Runs of any operation on a file: a driver's loop over its files, or a   *)
(* tool that rewrites a file in place                                      *)
(***************************************************************************)
InitOperations == InitPipe \/ InitInPlace

NextOperations == NextPipe \/ NextInPlace

SpecOperations == InitOperations /\ [][NextOperations]_vars

\* the scripts whose translate_file the claim names
ParseGuarded == {"precise", "batch", "comprehensive", "deepl", "fast"}

\* the destination of the i-th file holds what it held before the run (a run
\* writes neither of these two: it leaves a document it translated, or an
\* emptied file)
DestinationUntouched(i) == pDisk[i] \in {Absent, OldOutput}

\* C17: when the source does not parse as JSON, translate_file (precise,
\* batch, comprehensive, deepl, fast) and check_unicode.fix_file report the
\* error and return False, and the destination is neither created, truncated
\* nor written (for fix_file the destination is the file itself, and no
\* backup is written either)
C17_MalformedSourceWritesNothing ==
    /\ pScript \in ParseGuarded =>
          \A i \in 1..Len(pFiles) :
              (pFiles[i] = Malformed /\ pOut[i] # "pending") =>
                  (pOut[i] = "read_failed" /\ DestinationUntouched(i))
    /\ (iScript = "check_unicode" /\ iPc # "start" /\ iOrig # NoFile
            /\ IsRaise(Parse(ReadText(iOrig.text)))) =>
          (iPc = "returned" /\ iOut = "False" /\ iFile = iOrig /\ iLog = <<>>)

\* a deepl run met a malformed first file over an earlier output, reported
\* the failure, left the output alone and went on to translate the second
C17_Witness ==
    /\ pScript = "deepl"
    /\ Len(pFiles) = 2
    /\ pFiles[1] = Malformed
    /\ pOut = <<"read_failed", "ok">>
    /\ pDisk[1] = OldOutput
    /\ pDisk[2] # OldOutput

\* the drivers the ordering is stated for
OrderedDrivers == {"precise", "comprehensive", "batch", "teams_only", "french"}

\* C18: a destination is opened for writing only after the document was
\* loaded, walked to the end and re-validated with json.dumps, in that order;
\* a document whose walk failed leaves its destination as it was
C18_WriteOnlyAfterRevalidation ==
    pScript \in OrderedDrivers =>
        /\ "written" \in {pSteps[k] : k \in 1..Len(pSteps)} =>
                pSteps = <<"loaded", "walked", "validated", "written">>
        /\ \A i \in 1..Len(pFiles) :
                pOut[i] \in {"walk_failed", "interrupted"} => DestinationUntouched(i)

(***************************************************************************)
(* Provider traffic: the requests a walk sends and the sleeps it makes      *)
(***************************************************************************)
MaxLeaves == 3

RequestScripts == {"precise", "teams_only", "fast", "comprehensive", "deepl", "batch"}

\* how the provider answers one request: a translation; a status other than
\* 200; status 200 with an empty payload; requests.get raises (timeout,
\* connection error); status 200 with a body response.json() cannot decode
Responses == {"ok", "non200", "empty", "timeout", "not_json"}

\* the answers on which the request or the decoding raises
Raising == {"timeout", "not_json"}

CallOf(text, first, second, result, events) ==
    [called |-> TRUE, text |-> text, first |-> first, second |-> second,
     result |-> result, events |-> events]

\* translate_precise.translate_text, lines 14-51 (translate_teams_only, lines
\* 22-59, has the same body): one request; an exception is followed by
\* time.sleep(1) and one more request
retrying_translate_text(text, first, second) ==
    IF ~StripTruthy(text) THEN CallOf(text, first, second, text, <<>>)
    ELSE IF first = "ok" THEN CallOf(text, first, second, Translate(text), <<"request">>)
    ELSE IF first \notin Raising THEN CallOf(text, first, second, text, <<"request">>)
    ELSE CallOf(text, first, second, IF second = "ok" THEN Translate(text) ELSE text,
                <<"request", "sleep", "request">>)

\* translate_fast.translate_text, lines 23-49, translate_batch.translate_text,
\* lines 75-102: one request, every exception caught
single_translate_text(text, first) ==
    IF ~StripTruthy(text) THEN CallOf(text, first, "", text, <<>>)
    ELSE CallOf(text, first, "", IF first = "ok" THEN Translate(text) ELSE text, <<"request">>)

\* translate_comprehensive.translate_google_translate, lines 13-50:
\* time.sleep(0.2), then one request
translate_google_translate(text, first) ==
    CallOf(text, first, "", IF first = "ok" THEN Translate(text) ELSE text, <<"sleep", "request">>)

\* translate_deepl.translate_deepl, lines 13-38: one request, no sleep
deepl_request(text, first) ==
    IF ~StripTruthy(text) THEN CallOf(text, first, "", text, <<>>)
    ELSE CallOf(text, first, "", IF first = "ok" THEN Translate(text) ELSE text, <<"request">>)

\* the call the walker of a script makes for one in-scope string
ProviderCall(script, text, first, second) ==
    CASE script \in {"precise", "teams_only"} -> retrying_translate_text(text, first, second)
      [] script = "fast" -> single_translate_text(text, first)
      [] script = "comprehensive" -> translate_google_translate(text, first)
      [] OTHER -> deepl_request(text, first)

\* what the walker does after the call returns: time.sleep(0.3) in
\* translate_precise (74, 103), translate_teams_only (81, 106, 125, 134) and
\* translate_fast's translate_with_progress (142); nothing in
\* translate_comprehensive and translate_deepl
WalkerSleep(script) ==
    IF script \in {"precise", "teams_only", "fast"} THEN <<"sleep">> ELSE <<>>

RECURSIVE BatchEvents(_, _, _, _)
\* translate_batch.translate_batch, lines 41-63: the requests and sleeps from
\* the i-th text on, with current_size and whether current_batch is non-empty
BatchEvents(texts, i, current_size, filled) ==
    IF i > Len(texts)
    THEN IF filled THEN <<"request", "sleep">> ELSE <<>>
    ELSE LET text_size == Len(texts[i]) * 2 IN
         IF current_size + text_size > max_chars /\ filled
         THEN <<"request", "sleep">> \o BatchEvents(texts, i + 1, text_size, TRUE)
         ELSE BatchEvents(texts, i + 1, current_size + text_size, TRUE)

LeafTexts(script) == IF script = "batch" THEN {"Shoot", LongText} ELSE {"Shoot", "Recon"}

InitRequests ==
    /\ IdleClassify /\ IdleWalk /\ IdleBatch /\ IdlePipe /\ IdleInPlace /\ IdleNormalize
    /\ IdleTools
    /\ rScript \in RequestScripts
    /\ rTexts \in SeqsUpTo(LeafTexts(rScript), MaxLeaves)
    /\ rI = 1
    /\ rTrace = <<>>
    /\ rLast = NoCall
    /\ rPc = "walk"

\* the walker reaches an in-scope string and calls the provider function
TranslateLeaf ==
    /\ rPc = "walk"
    /\ rScript # "batch"
    /\ rI <= Len(rTexts)
    /\ \E first \in Responses, second \in Responses :
         LET call == ProviderCall(rScript, rTexts[rI], first, second) IN
         /\ rLast' = call
         /\ rTrace' = rTrace \o call.events \o WalkerSleep(rScript)
    /\ rI' = rI + 1
    /\ UNCHANGED <<rScript, rTexts, rPc>>
    /\ UNCHANGED NotRequestVars

\* translate_batch.translate_file, line 193: all the strings in one call of
\* translate_batch
TranslateBatches ==
    /\ rPc = "walk"
    /\ rScript = "batch"
    /\ rI <= Len(rTexts)
    /\ rTrace' = rTrace \o BatchEvents(rTexts, 1, 0, FALSE)
    /\ rI' = Len(rTexts) + 1
    /\ UNCHANGED <<rScript, rTexts, rLast, rPc>>
    /\ UNCHANGED NotRequestVars

\* the walk returns
WalkReturns ==
    /\ rPc = "walk"
    /\ rI > Len(rTexts)
    /\ rPc' = "done"
    /\ UNCHANGED <<rScript, rTexts, rI, rTrace, rLast>>
    /\ UNCHANGED NotRequestVars

NextRequests == TranslateLeaf \/ TranslateBatches \/ WalkReturns

SpecRequests == InitRequests /\ [][NextRequests]_vars

\* the number of requests among some events
Requests(events) == Cardinality({k \in 1..Len(events) : events[k] = "request"})

\* the answers the retry policy calls transient failures
Transient == {"non200", "timeout", "not_json"}

\* C19: a call of translate_text (translate_precise, translate_teams_only)
\* makes at most two requests; when the first request fails transiently it
\* sleeps and makes exactly one retry; when the retry fails too it returns
\* the original text
C19_OneRetryThenFallback ==
    (rScript \in {"precise", "teams_only"} /\ rLast.called) =>
        /\ Requests(rLast.events) <= 2
        /\ rLast.first \in Transient => rLast.events = <<"request", "sleep", "request">>
        /\ (rLast.first \in Transient /\ rLast.second # "ok") => rLast.result = rLast.text

\* C20: no two provider requests of a run are issued without a sleep between
\* them
C20_SleepBetweenRequests ==
    \A k \in 1..(Len(rTrace) - 1) : ~(rTrace[k] = "request" /\ rTrace[k + 1] = "request")

(***************************************************************************)
(* Claims about the field deletion                                         *)
(***************************************************************************)
\* every field clean_team_file is configured to remove
DeprecatedFields == root_fields_to_remove \cup opType_fields_to_remove \cup {"isDefault"}

RECURSIVE RemovedAtEveryDepth(_)
\* the document without the deprecated fields, wherever they occur, and
\* otherwise the same
RemovedAtEveryDepth(value) ==
    CASE value.t = "obj" ->
            LET popped == PopAll(value, DeprecatedFields, 1) IN
            JObj(popped.keys, [i \in 1..Len(popped.c) |-> RemovedAtEveryDepth(popped.c[i])])
      [] value.t = "arr" -> JArr([i \in 1..Len(value.c) |-> RemovedAtEveryDepth(value.c[i])])
      [] OTHER -> value

\* C21: the file clean_team_file has rewritten holds the document it read
\* without the configured deprecated fields at any depth, and with every
\* other key, value and array length as it was
C21_RemovesExactlyDeprecatedFields ==
    (iScript = "clean_team_fields" /\ iOut = "True") =>
        iFile = FileOf(WriteText(Dump(RemovedAtEveryDepth(iData), 0), iLinesep))

(***************************************************************************)
(* Character normalisation: fix_string_value applied to a value, and again *)
(* to what it returned                                                     *)
(***************************************************************************)
MaxStrLen == 3

\* mapped characters, characters the table maps to, and plain ones
NormChars == {"a", ".", "´", "·", "Â", "â"}

NormStrings == {Gather(cs, 1, Len(cs)) : cs \in SeqsUpTo(NormChars, MaxStrLen)}

\* a string, a string in a list, a string under a key that holds a mapped
\* character itself
NormValues ==
    {JStr(s) : s \in NormStrings}
    \cup {JArr(<<JStr(s), JNum>>) : s \in NormStrings}
    \cup {JObj(<<"k´", "n">>, <<JStr(s), JStr("Â·")>>) : s \in NormStrings}

InitNormalize ==
    /\ IdleClassify /\ IdleWalk /\ IdleBatch /\ IdlePipe /\ IdleInPlace /\ IdleRequests
    /\ IdleTools
    /\ nIn \in NormValues
    /\ nFirst = JNull
    /\ nOut = JNull
    /\ nCount = 0
    /\ nCount1 = 0
    /\ nPass = 0

\* fix_string_value(value, [0]) on the input
FixOnce ==
    /\ nPass = 0
    /\ nOut' = fix_string_value(nIn)
    /\ nFirst' = fix_string_value(nIn)
    /\ nCount' = replacements_count(nIn)
    /\ nCount1' = replacements_count(nIn)
    /\ nPass' = 1
    /\ UNCHANGED nIn
    /\ UNCHANGED NotNormalizeVars

\* fix_string_value(value, [0]) on what the first application returned
FixAgain ==
    /\ nPass = 1
    /\ nOut' = fix_string_value(nOut)
    /\ nCount' = replacements_count(nOut)
    /\ nPass' = 2
    /\ UNCHANGED <<nIn, nFirst, nCount1>>
    /\ UNCHANGED NotNormalizeVars

NextNormalize == FixOnce \/ FixAgain

SpecNormalize == InitNormalize /\ [][NextNormalize]_vars

\* C23: applying fix_string_value to its own result returns that result again
\* and reports zero replacements
C23_NormalizationIdempotent == nPass = 2 => (nOut = nFirst /\ nCount = 0)

\* a value whose string held a character with a three-character replacement
\* and one with a one-character replacement was fixed twice
C23_Witness ==
    /\ nPass = 2
    /\ nIn = JArr(<<JStr("·Ââ"), JNum>>)
    /\ nFirst = JArr(<<JStr("...Aa"), JNum>>)
    /\ nOut = nFirst

(***************************************************************************)
(* Runs of check_unicode: fix_string_value on a value, or fix_file on a    *)
(* file                                                                    *)
(***************************************************************************)
InitFixing == InitNormalize \/ InitInPlace

NextFixing == NextNormalize \/ NextInPlace

SpecFixing == InitFixing /\ [][NextFixing]_vars

\* the characters the table replaces
MappedChars == {UNICODE_TO_ASCII[k][1] : k \in 1..Len(UNICODE_TO_ASCII)}

RECURSIVE Occurrences(_)
\* how many characters of the string leaves of a value the table replaces
Occurrences(value) ==
    CASE value.t = "str" -> Cardinality({i \in 1..Len(value.s) : CharAt(value.s, i) \in MappedChars})
      [] value.t \in {"obj", "arr"} ->
            SumSeq([i \in 1..Len(value.c) |-> Occurrences(value.c[i])])
      [] OTHER -> 0

\* fix_file was given a file that parses
FixFileOnJson ==
    /\ iScript = "check_unicode"
    /\ iOrig # NoFile
    /\ ~IsRaise(Parse(ReadText(iOrig.text)))

\* C24: the count fix_string_value reports is the number of table characters
\* in the string leaves of its input; fix_file, given valid JSON, writes the
\* file only when that count is positive, and whenever it is positive and
\* fix_file returns, the file was written
C24_CountDecidesOverwrite ==
    /\ nPass >= 1 => nCount1 = Occurrences(nIn)
    /\ FixFileOnJson =>
          /\ "file" \in {iLog[k] : k \in 1..Len(iLog)} => Occurrences(Parse(ReadText(iOrig.text))) > 0
          /\ (iPc = "returned" /\ Occurrences(Parse(ReadText(iOrig.text))) > 0) =>
                (iOut = "True" /\ iLog[Len(iLog)] = "file"
                    /\ iFile = FileOf(WriteText(Dump(fix_string_value(iData), 0), iLinesep)))
          /\ (iPc = "returned" /\ Occurrences(Parse(ReadText(iOrig.text))) = 0) =>
                (iOut = "False" /\ iFile = iOrig)

\* fix_file returned True on a document whose key holds a table character too:
\* the string value was fixed and counted, the key was not
C24_Witness ==
    /\ iScript = "check_unicode"
    /\ iPc = "returned"
    /\ iOut = "True"
    /\ iData = JObj(<<"it´s">>, <<JStr("x·y")>>)
    /\ replacements_count(iData) = 1
    /\ iFile = FileOf(WriteText(Dump(JObj(<<"it´s">>, <<JStr("x...y")>>), 0), iLinesep))

(***************************************************************************)
(* merge_actions.py and split_teams.py                                     *)
(***************************************************************************)
MaxTeams == 2

\* a directory holding files, each a name and what the file holds
DirOf(files) == [dir |-> TRUE, files |-> files]
FileNamed(name, content) == [name |-> name, content |-> content]

\* open(name, 'w') and json.dump: the file of that name now holds content
WithFile(disk, name, content) ==
    DirOf({f \in disk.files : f.name # name} \cup {FileNamed(name, content)})

\* the action lists must not swap
MissionFirst(universal_actions, mission_actions) ==
    JArr(mission_actions.c \o universal_actions.c)

\* merge_actions.py line 47: universal_actions + mission_actions
Plus(universal_actions, mission_actions) ==
    IF universal_actions.t = "arr" /\ mission_actions.t = "arr"
    THEN JArr(universal_actions.c \o mission_actions.c)
    ELSE IF universal_actions.t = "str" /\ mission_actions.t = "str"
    THEN JStr(universal_actions.s \o mission_actions.s)
    ELSE Raise("TypeError")

\* merge_actions.py lines 19-29 and 34-44: the list one source contributes,
\* or the exception the try block catches
ActionsRead(source) ==
    IF source.kind = "missing" THEN JArr(<<>>)
    ELSE IF source.kind = "malformed" THEN Raise("JSONDecodeError")
    ELSE IF source.doc.t # "obj" THEN Raise("AttributeError")
    ELSE LET actions == IF HasKey(source.doc, "actions")
                        THEN ValueOf(source.doc, "actions") ELSE JArr(<<>>)
         IN IF actions.t \in {"num", "null"} THEN Raise("TypeError") ELSE actions

\* every shape of team list the split is never given
AnyShape(teams) == TRUE

\* split_teams.py line 29: isinstance(teams, list)
IsTeamsArray(teams) == teams.t = "arr"

\* split_teams.py line 53
safe_filename(killteam_id) == ReplaceChar(ReplaceChar(killteam_id, "/", "_"), "\\", "_")

Action1 == JObj(<<"name">>, <<JStr("Shoot")>>)
Action2 == JObj(<<"name">>, <<JStr("Dash")>>)

MergeDocs ==
    {JObj(<<"actions">>, <<JArr(a)>>) : a \in {<<>>, <<Action1>>, <<Action2, Action1>>}}
    \cup {JObj(<<"actions">>, <<v>>) : v \in {JStr("ab"), JNull, JObj(<<>>, <<>>)}}
    \cup {JObj(<<"version">>, <<JNum>>), JArr(<<Action1>>)}

TeamOf(id, name) == JObj(<<"killteamId", "killteamName">>, <<id, JStr(name)>>)

TeamEntries ==
    {TeamOf(JStr(id), n) : id \in {"IMP-AOD", "a/b", "a_b"}, n \in {"Angels", "Blades"}}
    \cup {TeamOf(JStr(""), "Angels"), TeamOf(JNum, "Angels"),
          JObj(<<"killteamName">>, <<JStr("Angels")>>), JStr("IMP-AOD")}

TeamsDocs ==
    {JArr(ts) : ts \in SeqsUpTo(TeamEntries, MaxTeams)}
    \cup {JObj(<<"teams">>, <<JArr(<<TeamOf(JStr("IMP-AOD"), "Angels")>>)>>), JStr("teams"), JNull}

InitMerge ==
    /\ IdleClassify /\ IdleWalk /\ IdleBatch /\ IdlePipe /\ IdleInPlace /\ IdleRequests
    /\ IdleNormalize
    /\ tScript = "merge_actions"
    /\ tSources \in [1..2 -> {Missing, Malformed} \cup {Parsed(d) : d \in MergeDocs}]
    /\ tDisk \in {DirOf({}), DirOf({FileNamed("actions.json", JObj(<<"actions">>, <<JArr(<<>>)>>))})}
    /\ tDisk0 = tDisk
    /\ tTeams = JNull
    /\ tI = 1
    /\ tSaved = 0
    /\ tOut = "none"
    /\ tPc = "start"

\* merge_actions.py lines 10-61
MergeActions ==
    /\ tPc = "start"
    /\ tScript = "merge_actions"
    /\ LET universal_actions == ActionsRead(tSources[1])
           mission_actions == ActionsRead(tSources[2])
       IN IF IsRaise(universal_actions) \/ IsRaise(mission_actions)
          THEN tOut' = "False" /\ tPc' = "returned" /\ UNCHANGED tDisk
          ELSE LET all_actions == Plus(universal_actions, mission_actions) IN
               IF IsRaise(all_actions)
               THEN tOut' = all_actions.s /\ tPc' = "raised" /\ UNCHANGED tDisk
               ELSE \E outcome \in {"ok", "open_fails", "dump_fails"} :
                      /\ tDisk' = CASE outcome = "ok" ->
                                        WithFile(tDisk, "actions.json",
                                                 JObj(<<"actions">>, <<all_actions>>))
                                    [] outcome = "dump_fails" ->
                                        WithFile(tDisk, "actions.json", JStr("truncated"))
                                    [] OTHER -> tDisk
                      /\ tOut' = IF outcome = "ok" THEN "True" ELSE "False"
                      /\ tPc' = "returned"
    /\ UNCHANGED <<tScript, tSources, tDisk0, tTeams, tI, tSaved>>
    /\ UNCHANGED NotToolVars

NextMerge == MergeActions

SpecMerge == InitMerge /\ [][NextMerge]_vars

InitSplit ==
    /\ IdleClassify /\ IdleWalk /\ IdleBatch /\ IdlePipe /\ IdleInPlace /\ IdleRequests
    /\ IdleNormalize
    /\ tScript = "split_teams"
    /\ tSources \in {<<src>> : src \in {Malformed} \cup {Parsed(d) : d \in TeamsDocs}}
    /\ tDisk \in {NoDir, DirOf({})}
    /\ tDisk0 = tDisk
    /\ tTeams = JNull
    /\ tI = 1
    /\ tSaved = 0
    /\ tOut = "none"
    /\ tPc = "start"

\* split_teams.py lines 22-36: read, check the shape, make the directory
ReadTeams ==
    /\ tPc = "start"
    /\ tScript = "split_teams"
    /\ IF tSources[1].kind # "json" \/ ~IsTeamsArray(tSources[1].doc)
       THEN /\ tOut' = "False"
            /\ tPc' = "returned"
            /\ UNCHANGED <<tDisk, tTeams>>
       ELSE /\ tTeams' = tSources[1].doc
            /\ tDisk' = DirOf(tDisk.files)
            /\ tPc' = "loop"
            /\ UNCHANGED tOut
    /\ UNCHANGED <<tScript, tSources, tDisk0, tI, tSaved>>
    /\ UNCHANGED NotToolVars

\* split_teams.py lines 41-65: one iteration of the loop over the teams
SaveTeam ==
    /\ tPc = "loop"
    /\ tI <= Len(tTeams.c)
    /\ LET team == tTeams.c[tI]
           killteam_id == IF team.t = "obj" /\ HasKey(team, "killteamId")
                          THEN ValueOf(team, "killteamId") ELSE JNull
       IN IF team.t # "obj" \/ killteam_id.t = "null" \/ killteam_id = JStr("")
          THEN /\ tI' = tI + 1
               /\ UNCHANGED <<tDisk, tSaved, tOut, tPc>>
          ELSE IF killteam_id.t # "str"
          THEN /\ tOut' = "AttributeError"
               /\ tPc' = "raised"
               /\ UNCHANGED <<tDisk, tSaved, tI>>
          ELSE \E outcome \in {"ok", "open_fails", "dump_fails"} :
                 /\ tDisk' = CASE outcome = "ok" ->
                                   WithFile(tDisk, safe_filename(killteam_id.s) \o ".json", team)
                               [] outcome = "dump_fails" ->
                                   WithFile(tDisk, safe_filename(killteam_id.s) \o ".json",
                                            JStr("truncated"))
                               [] OTHER -> tDisk
                 /\ tSaved' = IF outcome = "ok" THEN tSaved + 1 ELSE tSaved
                 /\ tI' = tI + 1
                 /\ UNCHANGED <<tOut, tPc>>
    /\ UNCHANGED <<tScript, tSources, tDisk0, tTeams>>
    /\ UNCHANGED NotToolVars

\* split_teams.py lines 67-68
SplitReturns ==
    /\ tPc = "loop"
    /\ tI > Len(tTeams.c)
    /\ tOut' = "True"
    /\ tPc' = "returned"
    /\ UNCHANGED <<tScript, tSources, tDisk, tDisk0, tTeams, tI, tSaved>>
    /\ UNCHANGED NotToolVars

NextSplit == ReadTeams \/ SaveTeam \/ SplitReturns

SpecSplit == InitSplit /\ [][NextSplit]_vars

(***************************************************************************)
(* Claims about merging and splitting                                      *)
(***************************************************************************)
\* a source merge_actions can take a list from: no file, or an object whose
\* 'actions', if it has one, is a list
ListSource(source) ==
    \/ source = Missing
    \/ /\ source.kind = "json"
       /\ source.doc.t = "obj"
       /\ HasKey(source.doc, "actions") => ValueOf(source.doc, "actions").t = "arr"

\* the list such a source holds
ListIn(source) ==
    IF source.kind = "json" /\ HasKey(source.doc, "actions")
    THEN ValueOf(source.doc, "actions").c ELSE <<>>

\* C25: the actions.json merge_actions writes holds exactly the universal
\* actions followed by the mission actions, each in its order, as many as the
\* two lists together (a missing source counting as an empty list); when a
\* source exists and does not parse, merge_actions returns False and
\* actions.json is neither created nor modified
C25_MergeConcatenates ==
    (tScript = "merge_actions" /\ tPc # "start") =>
        /\ (\E i \in 1..2 : tSources[i] = Malformed) => (tOut = "False" /\ tDisk = tDisk0)
        /\ (\A i \in 1..2 : ListSource(tSources[i])) =>
              /\ tPc = "returned"
              /\ tOut = "True" =>
                    \E f \in tDisk.files :
                        /\ f.name = "actions.json"
                        /\ f.content = JObj(<<"actions">>,
                                            <<JArr(ListIn(tSources[1]) \o ListIn(tSources[2]))>>)
                        /\ Len(f.content.c[1].c) = Len(ListIn(tSources[1])) + Len(ListIn(tSources[2]))

\* one universal action and two mission actions were merged over an earlier
\* actions.json
C25_Witness ==
    /\ tScript = "merge_actions"
    /\ tSources = <<Parsed(JObj(<<"actions">>, <<JArr(<<Action1>>)>>)),
                    Parsed(JObj(<<"actions">>, <<JArr(<<Action2, Action1>>)>>))>>
    /\ tOut = "True"
    /\ tDisk0 # DirOf({})
    /\ tDisk = DirOf({FileNamed("actions.json",
                                JObj(<<"actions">>, <<JArr(<<Action1, Action2, Action1>>)>>))})

\* C26: when the parsed teams document is not an array, split_teams_file
\* returns False and neither the output directory nor any team file is made
C26_ShapeCheckedBeforeOutput ==
    (tScript = "split_teams" /\ tPc # "start"
        /\ tSources[1].kind = "json" /\ tSources[1].doc.t # "arr") =>
            (tPc = "returned" /\ tOut = "False" /\ tDisk = tDisk0)

\* an object holding the teams was refused, and no directory was made
C26_Witness ==
    /\ tScript = "split_teams"
    /\ tSources[1].kind = "json"
    /\ tSources[1].doc.t = "obj"
    /\ tPc = "returned"
    /\ tOut = "False"
    /\ tDisk = NoDir

\* C29: starting from an empty output directory, the saved count
\* split_teams_file reports is the number of files in the directory: every
\* saved team has a file of its own
C29_OneFilePerSavedTeam ==
    (tScript = "split_teams" /\ tDisk0.files = {} /\ tPc = "returned" /\ tOut = "True") =>
        tSaved = Cardinality(tDisk.files)

====
